---- MODULE Spec2Model ----
(***************************************************************************)
(* Model of the wortha pricing and statistical aggregation engine:         *)
(*   src/stats_helpers.py   outlier-safe summaries, community pricing      *)
(*   src/main.py            calculate_rate, calculator_submit,             *)
(*                          negotiation_submit                             *)
(*   src/models.py          deal records, follower tiers                   *)
(*   src/constants.py       code normalisation                             *)
(*                                                                         *)
(* Numbers.  Python floats are modelled as exact rationals <<n, d>> with   *)
(* d > 0 and gcd(n, d) = 1; the rounding of IEEE doubles is not modelled.  *)
(* Python's None is the empty tuple.  Every optional number of the program *)
(* (a form field, a column) is therefore a tuple: <<>> or <<n, d>>.        *)
(***************************************************************************)
EXTENDS Integers, Sequences, FiniteSets, TLC

VARIABLES
    sample,        \* the argument of the next statistics call (list of floats)
    statsCall,     \* the last statistics call: its operation and result
    rateArgs,      \* the arguments of the next calculate_rate call
    rateResult,    \* the dict calculate_rate returned for rateArgs, or None
    user,          \* the logged-in user row (its plan)
    profile,       \* the user's creator_profile row, or None
    deals,         \* table deal_contribution, in insertion order
    negotiations,  \* table negotiation_session, in insertion order
    calculations,  \* table calculation, in insertion order
    response,      \* what the last request handler returned
    handled,       \* the number of requests handled so far
    now,           \* the clock datetime.utcnow() reads
    users,         \* the rows signup added to table user, in insertion order
    inflight       \* the calculator requests between their SELECT and INSERT

vars == <<sample, statsCall, rateArgs, rateResult, now, user, profile, deals,
          negotiations, calculations, response, handled, users, inflight>>

-----------------------------------------------------------------------------
(* Exact arithmetic standing for Python's float arithmetic.                *)

None == <<>>

\* a datetime: <<year, month, day, hour, minute, second, microsecond>>
datetime(year, month, day, hour, minute, second, microsecond) ==
    <<year, month, day, hour, minute, second, microsecond>>

\* the clock of every behaviour that does not let time pass
Epoch == datetime(2024, 2, 15, 12, 0, 0, 0)

\* a <= b for datetimes: lexicographic on the seven fields from position k
RECURSIVE DateTimeLeFrom(_, _, _)
DateTimeLeFrom(a, b, k) ==
    IF k > 7 THEN TRUE
    ELSE IF a[k] # b[k] THEN a[k] < b[k]
    ELSE DateTimeLeFrom(a, b, k + 1)

DateTimeLe(a, b) == DateTimeLeFrom(a, b, 1)

DateTimeLt(a, b) == a # b /\ DateTimeLe(a, b)

Abs(x) == IF x < 0 THEN -x ELSE x

RECURSIVE GCD(_, _)
GCD(a, b) == IF b = 0 THEN a ELSE GCD(b, a % b)

\* the rational n/d in lowest terms, the sign carried by the numerator
Rat(n, d) ==
    LET s == IF d < 0 THEN -1 ELSE 1
        g == GCD(Abs(n), Abs(d))
    IN  <<(s * n) \div g, (s * d) \div g>>

\* float(i) of an integer i
Float(i) == <<i, 1>>

RAdd(x, y) ==
    LET g == GCD(x[2], y[2])
    IN  Rat(x[1] * (y[2] \div g) + y[1] * (x[2] \div g), (x[2] \div g) * y[2])

RNeg(x) == <<-x[1], x[2]>>

RSub(x, y) == RAdd(x, RNeg(y))

\* x * y, cancelling across the factors first so that no intermediate
\* product is larger than the result needs
RMul(x, y) ==
    LET g1 == GCD(Abs(x[1]), y[2])
        g2 == GCD(Abs(y[1]), x[2])
        a1 == IF g1 = 0 THEN 1 ELSE g1
        a2 == IF g2 = 0 THEN 1 ELSE g2
    IN  Rat((x[1] \div a1) * (y[1] \div a2), (x[2] \div a2) * (y[2] \div a1))

\* x / y for y # 0
RDiv(x, y) == RMul(x, Rat(y[2], y[1]))

RLt(x, y) == x[1] * y[2] < y[1] * x[2]

RLe(x, y) == x[1] * y[2] <= y[1] * x[2]

\* int(x): truncation toward zero
IntOf(x) == IF x[1] >= 0 THEN x[1] \div x[2] ELSE -((-x[1]) \div x[2])

-----------------------------------------------------------------------------
(* src/stats_helpers.py                                                    *)

RECURSIVE SumSeq(_)
SumSeq(values) ==
    IF values = <<>> THEN Float(0) ELSE RAdd(Head(values), SumSeq(Tail(values)))

\* insert x into the ascending list s, before the first larger element
RECURSIVE Insert(_, _)
Insert(x, s) ==
    IF s = <<>> THEN <<x>>
    ELSE IF RLt(x, Head(s)) THEN <<x>> \o s
    ELSE <<Head(s)>> \o Insert(x, Tail(s))

\* sorted(values): ascending
RECURSIVE sorted(_)
sorted(values) ==
    IF values = <<>> THEN <<>>
    ELSE Insert(values[Len(values)], sorted(SubSeq(values, 1, Len(values) - 1)))

\* statistics.median: the middle of the sorted data, or the mean of the
\* two middle values when their number is even
median(values) ==
    LET data == sorted(values)
        n == Len(data)
        i == n \div 2
    IN  IF n % 2 = 1 THEN data[i + 1]
        ELSE RDiv(RAdd(data[i], data[i + 1]), Float(2))

safe_avg(values) ==
    IF values = <<>> THEN None
    ELSE RDiv(SumSeq(values), Float(Len(values)))

safe_median(values) ==
    IF values = <<>> THEN None ELSE median(values)

\* lower_idx rounding up instead of truncating
lower_idx_ceil(n) == (n + 9) \div 10

\* upper_idx mirroring lower_idx (n - int(n * 0.1)) instead of int(n * 0.9)
upper_idx_mirror(n) == n - (n \div 10)

\* int(n * 0.1) and int(n * 0.9) of the double products; they equal
\* floor(n/10) and floor(9n/10) for every n below 200000
lower_idx(n) == IntOf(RMul(Float(n), Rat(1, 10)))

upper_idx(n) == IntOf(RMul(Float(n), Rat(9, 10)))

\* Python's values[lo:hi] for 0 <= lo, hi <= len(values)
Slice(values, lo, hi) == SubSeq(values, lo + 1, hi)

\* _clip_outliers leaving only fewer than 4 values alone
clip_outliers_lt4(values) ==
    IF Len(values) < 4 THEN values
    ELSE LET values_sorted == sorted(values)
             n == Len(values_sorted)
         IN  IF upper_idx(n) <= lower_idx(n) THEN values_sorted
             ELSE LET clipped == Slice(values_sorted, lower_idx(n), upper_idx(n))
                  IN  IF clipped # <<>> THEN clipped ELSE values_sorted

clip_outliers(values) ==
    IF Len(values) < 5 THEN values
    ELSE LET values_sorted == sorted(values)
             n == Len(values_sorted)
         IN  IF upper_idx(n) <= lower_idx(n) THEN values_sorted
             ELSE LET clipped == Slice(values_sorted, lower_idx(n), upper_idx(n))
                  IN  IF clipped # <<>> THEN clipped ELSE values_sorted

\* the summary of nothing reported as zeros
EmptySummaryZeros ==
    [count |-> 0, avg |-> Float(0), median |-> Float(0), min |-> Float(0),
     max |-> Float(0)]

EmptySummary ==
    [count |-> 0, avg |-> None, median |-> None, min |-> None, max |-> None]

\* the summary reporting the extremes of the trimmed list
summarize_fees_clipped_extremes(values) ==
    IF values = <<>> THEN EmptySummary
    ELSE LET values_sorted == sorted(values)
             clipped == clip_outliers(values_sorted)
         IN  [count  |-> Len(values_sorted),
              avg    |-> safe_avg(clipped),
              median |-> safe_median(clipped),
              min    |-> clipped[1],
              max    |-> clipped[Len(clipped)]]

summarize_fees_outlier_safe(values) ==
    IF values = <<>> THEN EmptySummary
    ELSE LET values_sorted == sorted(values)
             clipped == clip_outliers(values_sorted)
         IN  [count  |-> Len(values_sorted),
              avg    |-> safe_avg(clipped),
              median |-> safe_median(clipped),
              min    |-> values_sorted[1],
              max    |-> values_sorted[Len(values_sorted)]]

-----------------------------------------------------------------------------
(* The statistics calls: a sample is drawn, then an operation is applied.  *)

\* longest sample drawn
MaxLen == 10

\* the fees a drawn sample is made of
FeeValues == {Float(10), Float(1000)}

\* the six fees of the documented scenario, in order and reversed
ScenarioFees ==
    <<Float(10), Float(20), Float(30), Float(40), Float(50), Float(1000)>>

ScenarioFeesReversed ==
    <<Float(1000), Float(50), Float(40), Float(30), Float(20), Float(10)>>

\* samples of ten and of eleven distinct fees, unsorted
TenFees ==
    <<Float(70), Float(20), Float(90), Float(40), Float(100), Float(60),
      Float(50), Float(80), Float(30), Float(10)>>

ElevenFees == <<Float(55)>> \o TenFees

SampleInputs ==
    UNION {[1..n -> FeeValues] : n \in 0..MaxLen}
        \cup {ScenarioFees, ScenarioFeesReversed, TenFees, ElevenFees}

NoCall == [op |-> "none", arg |-> None, result |-> None]

\* no statistics call pending or made
IdleStats ==
    /\ sample = <<>>
    /\ statsCall = NoCall

\* no calculate_rate call pending or made
IdleRate ==
    /\ rateArgs = None
    /\ rateResult = None

\* the request handlers' state while only pure functions are exercised
IdleSystem ==
    /\ now = Epoch
    /\ user = None
    /\ profile = None
    /\ deals = <<>>
    /\ negotiations = <<>>
    /\ calculations = <<>>
    /\ response = [handler |-> "none"]
    /\ handled = 0
    /\ users = <<>>
    /\ inflight = {}

InitStats ==
    /\ sample \in SampleInputs
    /\ statsCall = NoCall
    /\ IdleRate
    /\ IdleSystem

\* summarize_fees_outlier_safe(sample)
SummarizeFees ==
    /\ statsCall.op = "none"
    /\ statsCall' = [op |-> "summarize_fees", arg |-> sample,
                     result |-> summarize_fees_outlier_safe(sample)]
    /\ UNCHANGED <<users, inflight, sample, rateArgs, rateResult, now, user, profile, deals,
                   negotiations, calculations, response, handled>>

\* _clip_outliers(sample)
ClipOutliers ==
    /\ statsCall.op = "none"
    /\ statsCall' = [op |-> "clip", arg |-> sample,
                     result |-> clip_outliers(sample)]
    /\ UNCHANGED <<users, inflight, sample, rateArgs, rateResult, now, user, profile, deals,
                   negotiations, calculations, response, handled>>

\* _clip_outliers applied to the list the previous _clip_outliers returned
ClipAgain ==
    /\ statsCall.op = "clip"
    /\ statsCall' = [op |-> "clip_again", arg |-> statsCall.result,
                     result |-> clip_outliers(statsCall.result)]
    /\ UNCHANGED <<users, inflight, sample, rateArgs, rateResult, now, user, profile, deals,
                   negotiations, calculations, response, handled>>

NextStats == SummarizeFees \/ ClipOutliers \/ ClipAgain

SpecStats == InitStats /\ [][NextStats]_vars

-----------------------------------------------------------------------------
(* Claims about the outlier-safe summary (checked under SpecStats).        *)

Summarized == statsCall.op = "summarize_fees"

\* C1 as stated: for the fees [10,20,30,40,50,1000] the summary has count 6,
\* min 10, max 1000, and avg = median = 35, the mean and median of
\* [20,30,40,50] (indices 0 and 5 dropped).
C1_Original ==
    (Summarized /\ sample = ScenarioFees) =>
        /\ statsCall.result.count = 6
        /\ statsCall.result.min = Float(10)
        /\ statsCall.result.max = Float(1000)
        /\ statsCall.result.avg = Float(35)
        /\ statsCall.result.median = Float(35)

\* C1 amended: for the fees [10,20,30,40,50,1000] the summary has count 6,
\* min 10, max 1000, and avg = median = 30, the mean and median of
\* [10,20,30,40,50]: the slice [0:5] drops index 5 only.
C1_ScenarioSummary ==
    (Summarized /\ sample = ScenarioFees) =>
        /\ statsCall.result.count = 6
        /\ statsCall.result.min = Float(10)
        /\ statsCall.result.max = Float(1000)
        /\ statsCall.result.avg = Float(30)
        /\ statsCall.result.median = Float(30)

C1_Witness == Summarized /\ sample = ScenarioFees

\* the elements of the ascending list s at the 0-based indices lo .. hi-1
IndexRange(s, lo, hi) == [i \in 1..(hi - lo) |-> s[lo + i]]

\* the part of a sample of n values that the averages are taken over
TrimmedPart(s) ==
    LET n == Len(s)
    IN  IF n < 5 THEN sorted(s)
        ELSE IndexRange(sorted(s), n \div 10, (9 * n) \div 10)

\* C2: the avg and median of a summary are those of the sorted sample when
\* n < 5, and of the sorted elements at indices floor(0.1 n) (inclusive) to
\* floor(0.9 n) (exclusive) when n >= 5.
C2_TrimByFloorIndex ==
    (Summarized /\ sample # <<>>) =>
        /\ statsCall.result.avg =
               RDiv(SumSeq(TrimmedPart(sample)), Float(Len(TrimmedPart(sample))))
        /\ statsCall.result.median = median(TrimmedPart(sample))

\* a sample of ten or more values whose trimming changes the average
C2_Witness ==
    /\ Summarized
    /\ Len(sample) >= 10
    /\ statsCall.result.avg # safe_avg(sample)

\* C3: for a non-empty sample the count is the number of input values and
\* min and max are the smallest and largest input values, trimmed or not.
C3_ExtremesUntrimmed ==
    (Summarized /\ sample # <<>>) =>
        /\ statsCall.result.count = Len(sample)
        /\ \E i \in 1..Len(sample) : sample[i] = statsCall.result.min
        /\ \E i \in 1..Len(sample) : sample[i] = statsCall.result.max
        /\ \A i \in 1..Len(sample) :
               /\ RLe(statsCall.result.min, sample[i])
               /\ RLe(sample[i], statsCall.result.max)

\* a summary whose min and max were both trimmed away from the averaged part
C3_Witness ==
    /\ Summarized
    /\ Len(sample) >= 10
    /\ \A i \in 1..Len(TrimmedPart(sample)) :
           /\ TrimmedPart(sample)[i] # statsCall.result.min
           /\ TrimmedPart(sample)[i] # statsCall.result.max

\* C4 as stated: trimming a trimmed list returns it unchanged, for every
\* sample.
C4_Original ==
    statsCall.op = "clip_again" => statsCall.result = statsCall.arg

\* C4 amended: trimming a trimmed list returns it unchanged whenever the
\* trimmed list has fewer than 5 values, that is for samples of at most 5.
C4_IdempotentUpToFive ==
    (statsCall.op = "clip_again" /\ Len(sample) <= 5) =>
        statsCall.result = statsCall.arg

\* a sample of 5 that the first trim shortened to 4
C4_Witness ==
    /\ statsCall.op = "clip_again"
    /\ Len(sample) = 5
    /\ Len(statsCall.arg) = 4

-----------------------------------------------------------------------------
(* src/constants.py: normalisation of user-entered strings to codes.       *)

\* a missing string (None)
NoneStr == "<None>"

\* value.strip().lower() of every string the model submits
StripLower ==
    "YouTube" :> "youtube" @@ " yt " :> "yt" @@ "X/Twitter" :> "x/twitter" @@
    "mars" :> "mars" @@ "" :> "" @@ "Finance" :> "finance" @@
    "Self-Improvement" :> "self-improvement" @@ "crypto" :> "crypto" @@
    "USA" :> "usa" @@ "United States" :> "united states" @@
    "Europe (EU)" :> "europe (eu)" @@ "Great Britain" :> "great britain" @@
    "Under 5K" :> "under 5k" @@ "100K+" :> "100k+" @@
    "youtube" :> "youtube" @@ "instagram" :> "instagram" @@
    "tiktok" :> "tiktok" @@ "linkedin" :> "linkedin" @@
    "twitter" :> "twitter" @@ "twitch" :> "twitch" @@
    "podcast" :> "podcast" @@ "newsletter" :> "newsletter" @@
    "other" :> "other" @@ "finance" :> "finance" @@ "beauty" :> "beauty" @@
    "fashion" :> "fashion" @@ "gaming" :> "gaming" @@ "tech" :> "tech" @@
    "fitness" :> "fitness" @@ "health" :> "health" @@
    "lifestyle" :> "lifestyle" @@ "travel" :> "travel" @@ "food" :> "food" @@
    "parenting" :> "parenting" @@ "education" :> "education" @@
    "business" :> "business" @@ "self_improvement" :> "self_improvement" @@
    "accepted" :> "accepted" @@ "in_progress" :> "in_progress" @@
    "music" :> "music" @@ "sports" :> "sports" @@ "comedy" :> "comedy" @@
    "us" :> "us" @@ "canada" :> "canada" @@ "uk" :> "uk" @@ "eu" :> "eu" @@
    "latam" :> "latam" @@ "apac" :> "apac" @@ "under_5k" :> "under_5k" @@
    "5k_10k" :> "5k_10k" @@ "10k_25k" :> "10k_25k" @@
    "25k_50k" :> "25k_50k" @@ "50k_100k" :> "50k_100k" @@
    "100k_plus" :> "100k_plus"

\* _slugify(raw) of every stripped, lowered string
slugify ==
    "youtube" :> "youtube" @@ "yt" :> "yt" @@ "x/twitter" :> "x_twitter" @@
    "mars" :> "mars" @@ "" :> "" @@ "finance" :> "finance" @@
    "self-improvement" :> "self_improvement" @@ "crypto" :> "crypto" @@
    "usa" :> "usa" @@ "united states" :> "united_states" @@
    "europe (eu)" :> "europe_eu" @@ "great britain" :> "great_britain" @@
    "under 5k" :> "under_5k" @@ "100k+" :> "100k" @@
    "instagram" :> "instagram" @@ "tiktok" :> "tiktok" @@
    "linkedin" :> "linkedin" @@ "twitter" :> "twitter" @@
    "twitch" :> "twitch" @@ "podcast" :> "podcast" @@
    "newsletter" :> "newsletter" @@ "other" :> "other" @@
    "beauty" :> "beauty" @@ "fashion" :> "fashion" @@ "gaming" :> "gaming" @@
    "tech" :> "tech" @@ "fitness" :> "fitness" @@ "health" :> "health" @@
    "lifestyle" :> "lifestyle" @@ "travel" :> "travel" @@ "food" :> "food" @@
    "parenting" :> "parenting" @@ "education" :> "education" @@
    "business" :> "business" @@ "self_improvement" :> "self_improvement" @@
    "music" :> "music" @@ "sports" :> "sports" @@ "comedy" :> "comedy" @@
    "us" :> "us" @@ "canada" :> "canada" @@ "uk" :> "uk" @@ "eu" :> "eu" @@
    "latam" :> "latam" @@ "apac" :> "apac" @@ "under_5k" :> "under_5k" @@
    "5k_10k" :> "5k_10k" @@ "10k_25k" :> "10k_25k" @@
    "25k_50k" :> "25k_50k" @@ "50k_100k" :> "50k_100k" @@
    "100k_plus" :> "100k_plus"

PLATFORM_CODES ==
    {"youtube", "instagram", "tiktok", "linkedin", "twitter", "twitch",
     "podcast", "newsletter", "other"}

NICHE_CODES ==
    {"finance", "beauty", "fashion", "gaming", "tech", "fitness", "health",
     "lifestyle", "travel", "food", "parenting", "education", "business",
     "self_improvement", "music", "sports", "comedy", "other"}

GEO_REGION_CODES ==
    {"us", "canada", "uk", "eu", "latam", "apac", "other"}

FOLLOWER_TIER_CODES ==
    {"under_5k", "5k_10k", "10k_25k", "25k_50k", "50k_100k", "100k_plus"}

PLATFORM_LOOKUP ==
    "youtube" :> "youtube" @@ "instagram" :> "instagram" @@
    "tiktok" :> "tiktok" @@ "linkedin" :> "linkedin" @@
    "x_twitter" :> "twitter" @@ "twitter" :> "twitter" @@
    "twitch" :> "twitch" @@ "podcast" :> "podcast" @@
    "newsletter" :> "newsletter" @@ "other" :> "other"

NICHE_LOOKUP ==
    "finance" :> "finance" @@ "beauty" :> "beauty" @@
    "fashion" :> "fashion" @@ "gaming" :> "gaming" @@ "tech" :> "tech" @@
    "fitness" :> "fitness" @@ "health" :> "health" @@
    "lifestyle" :> "lifestyle" @@ "travel" :> "travel" @@ "food" :> "food" @@
    "parenting" :> "parenting" @@ "education" :> "education" @@
    "business" :> "business" @@ "self_improvement" :> "self_improvement" @@
    "music" :> "music" @@ "sports" :> "sports" @@ "comedy" :> "comedy" @@
    "other" :> "other"

GEO_LOOKUP ==
    "us" :> "us" @@ "canada" :> "canada" @@ "uk" :> "uk" @@
    "europe_eu" :> "eu" @@ "eu" :> "eu" @@
    "latin_america_latam" :> "latam" @@ "latam" :> "latam" @@
    "asia_pacific_apac" :> "apac" @@ "apac" :> "apac" @@ "other" :> "other"

FOLLOWER_TIER_LOOKUP ==
    "under_5k" :> "under_5k" @@ "5k_10k" :> "5k_10k" @@
    "10k_25k" :> "10k_25k" @@ "25k_50k" :> "25k_50k" @@
    "50k_100k" :> "50k_100k" @@ "100k" :> "100k_plus" @@
    "100k_plus" :> "100k_plus"

PLATFORM_ALIASES ==
    "x" :> "twitter" @@ "twitter" :> "twitter" @@ "x_twitter" :> "twitter" @@
    "yt" :> "youtube"

GEO_ALIASES ==
    "usa" :> "us" @@ "u_s" :> "us" @@ "u_s_a" :> "us" @@
    "united_states" :> "us" @@ "united_states_of_america" :> "us" @@
    "united_kingdom" :> "uk" @@ "great_britain" :> "uk" @@
    "england" :> "uk" @@ "europe" :> "eu" @@ "europe_eu" :> "eu" @@
    "european_union" :> "eu" @@ "latin_america" :> "latam" @@
    "south_america" :> "latam" @@ "asia_pacific" :> "apac"

FOLLOWER_TIER_ALIASES ==
    "under_5k" :> "under_5k" @@ "under5k" :> "under_5k" @@
    "5k_10k" :> "5k_10k" @@ "5k10k" :> "5k_10k" @@ "10k_25k" :> "10k_25k" @@
    "10k25k" :> "10k_25k" @@ "25k_50k" :> "25k_50k" @@
    "25k50k" :> "25k_50k" @@ "50k_100k" :> "50k_100k" @@
    "50k100k" :> "50k_100k" @@ "100k_plus" :> "100k_plus" @@
    "100k" :> "100k_plus" @@ "100kplus" :> "100k_plus"

\* no alias table (aliases=None)
NO_ALIASES == [a \in {} |-> ""]

\* the characters of the niche codes and of the niche keywords
Chars ==
    "finance" :> <<"f", "i", "n", "a", "n", "c", "e">>
    @@ "beauty" :> <<"b", "e", "a", "u", "t", "y">>
    @@ "fashion" :> <<"f", "a", "s", "h", "i", "o", "n">>
    @@ "gaming" :> <<"g", "a", "m", "i", "n", "g">>
    @@ "tech" :> <<"t", "e", "c", "h">>
    @@ "fitness" :> <<"f", "i", "t", "n", "e", "s", "s">>
    @@ "health" :> <<"h", "e", "a", "l", "t", "h">>
    @@ "lifestyle" :> <<"l", "i", "f", "e", "s", "t", "y", "l", "e">>
    @@ "travel" :> <<"t", "r", "a", "v", "e", "l">>
    @@ "food" :> <<"f", "o", "o", "d">>
    @@ "parenting" :> <<"p", "a", "r", "e", "n", "t", "i", "n", "g">>
    @@ "education" :> <<"e", "d", "u", "c", "a", "t", "i", "o", "n">>
    @@ "business" :> <<"b", "u", "s", "i", "n", "e", "s", "s">>
    @@ "self_improvement" :> <<"s", "e", "l", "f", "_", "i", "m", "p", "r", "o", "v", "e", "m", "e", "n", "t">>
    @@ "music" :> <<"m", "u", "s", "i", "c">>
    @@ "sports" :> <<"s", "p", "o", "r", "t", "s">>
    @@ "comedy" :> <<"c", "o", "m", "e", "d", "y">>
    @@ "other" :> <<"o", "t", "h", "e", "r">>
    @@ "investing" :> <<"i", "n", "v", "e", "s", "t", "i", "n", "g">>

normalize_choice(value, allowed, lookup, aliases, default) ==
    IF value = NoneStr THEN default
    ELSE LET raw == StripLower[value]
             slug == slugify[raw]
         IN  IF raw = "" THEN default
             ELSE IF raw \in allowed THEN raw
             ELSE IF raw \in DOMAIN aliases THEN aliases[raw]
             ELSE IF slug \in allowed THEN slug
             ELSE IF slug \in DOMAIN aliases THEN aliases[slug]
             ELSE IF slug \in DOMAIN lookup THEN lookup[slug]
             ELSE default

normalize_platform(value) ==
    normalize_choice(value, PLATFORM_CODES, PLATFORM_LOOKUP, PLATFORM_ALIASES, "other")

normalize_niche(value) ==
    normalize_choice(value, NICHE_CODES, NICHE_LOOKUP, NO_ALIASES, "other")

normalize_geo_region(value) ==
    normalize_choice(value, GEO_REGION_CODES, GEO_LOOKUP, GEO_ALIASES, "other")

normalize_follower_tier(value) ==
    normalize_choice(value, FOLLOWER_TIER_CODES, FOLLOWER_TIER_LOOKUP,
                     FOLLOWER_TIER_ALIASES, "under_5k")

-----------------------------------------------------------------------------
(* src/main.py: calculate_rate                                             *)

platform_cpm ==
    "youtube" :> 15 @@ "instagram" :> 12 @@ "tiktok" :> 10 @@ "linkedin" :> 18
    @@ "twitter" :> 11 @@ "twitch" :> 14 @@ "podcast" :> 20
    @@ "newsletter" :> 16 @@ "other" :> 8

\* the dict niche_multipliers in its insertion order
niche_multipliers ==
    << <<"finance", Rat(14, 10)>>, <<"investing", Rat(14, 10)>>,
       <<"business", Rat(14, 10)>>, <<"beauty", Rat(12, 10)>>,
       <<"fashion", Rat(12, 10)>>, <<"tech", Rat(13, 10)>>,
       <<"gaming", Rat(13, 10)>>, <<"fitness", Rat(115, 100)>>,
       <<"health", Rat(115, 100)>> >>

\* Python's `key in text` for strings: key occurs in text as a substring
IsSubstring(key, text) ==
    \E i \in 0..(Len(Chars[text]) - Len(Chars[key])) :
        SubSeq(Chars[text], i + 1, i + Len(Chars[key])) = Chars[key]

\* the loop over niche_multipliers.items(): the first matching key wins
RECURSIVE NicheLoop(_, _)
NicheLoop(items, niche_key) ==
    IF items = <<>> THEN Float(1)
    ELSE IF IsSubstring(Head(items)[1], niche_key) THEN Head(items)[2]
    ELSE NicheLoop(Tail(items), niche_key)

\* the scan starting at the second entry of the table
niche_multiplier_skip_first(niche_key) ==
    NicheLoop(Tail(niche_multipliers), niche_key)

niche_multiplier_of(niche_key) == NicheLoop(niche_multipliers, niche_key)

\* the bands closed at their upper ends: a rate of exactly 1, 3 or 5 stays
\* in the band below
engagement_multiplier_inclusive(engagement_rate) ==
    IF engagement_rate = None THEN Float(1)
    ELSE IF RLe(engagement_rate, Float(1)) THEN Rat(8, 10)
    ELSE IF RLe(engagement_rate, Float(3)) THEN Float(1)
    ELSE IF RLe(engagement_rate, Float(5)) THEN Rat(115, 100)
    ELSE Rat(13, 10)

engagement_multiplier_of(engagement_rate) ==
    IF engagement_rate = None THEN Float(1)
    ELSE IF RLt(engagement_rate, Float(1)) THEN Rat(8, 10)
    ELSE IF RLt(engagement_rate, Float(3)) THEN Float(1)
    ELSE IF RLt(engagement_rate, Float(5)) THEN Rat(115, 100)
    ELSE Rat(13, 10)

geo_multiplier_of(geo_key) ==
    IF geo_key \in {"us", "canada"} THEN Rat(11, 10)
    ELSE IF geo_key \in {"uk", "eu"} THEN Rat(105, 100)
    ELSE Float(1)

\* the follower fallback rounding to the nearest whole view
views_of_rounded(followers, avg_views) ==
    LET views == IF avg_views # None /\ avg_views[1] # 0 /\ avg_views[1] > 0
                 THEN avg_views[1] ELSE 0
    IN  IF views = 0 /\ followers # None /\ followers[1] # 0 /\ followers[1] > 0
        THEN (followers[1] + 5) \div 10
        ELSE views

\* views = avg_views if avg_views and avg_views > 0 else 0, then the
\* fallback int(followers * 0.1); followers and avg_views are None or ints
views_of(followers, avg_views) ==
    LET views == IF avg_views # None /\ avg_views[1] # 0 /\ avg_views[1] > 0
                 THEN avg_views[1] ELSE 0
    IN  IF views = 0 /\ followers # None /\ followers[1] # 0 /\ followers[1] > 0
        THEN IntOf(RMul(followers, Rat(1, 10)))
        ELSE views

\* recommended_min = base_rate * 0.8
recommended_min_of(base_rate) == RMul(base_rate, Rat(8, 10))

\* a band of +25% instead of +20%
recommended_max_125(base_rate) == RMul(base_rate, Rat(125, 100))

\* recommended_max = base_rate * 1.2
recommended_max_of(base_rate) == RMul(base_rate, Rat(12, 10))

calculate_rate(platform, niche, followers, avg_views, engagement_rate, geo_region) ==
    LET platform_key == normalize_platform(platform)
        niche_key == normalize_niche(niche)
        base_cpm == IF platform_key \in DOMAIN platform_cpm
                    THEN platform_cpm[platform_key] ELSE platform_cpm["other"]
        niche_multiplier == niche_multiplier_of(niche_key)
        engagement_multiplier == engagement_multiplier_of(engagement_rate)
        geo_key == normalize_geo_region(geo_region)
        geo_multiplier == geo_multiplier_of(geo_key)
        views == views_of(followers, avg_views)
        effective_cpm ==
            RMul(RMul(RMul(Float(base_cpm), niche_multiplier),
                      engagement_multiplier), geo_multiplier)
        base_rate == IF views # 0
                     THEN RMul(RDiv(Float(views), Float(1000)), effective_cpm)
                     ELSE Float(0)
    IN  [recommended_min       |-> recommended_min_of(base_rate),
         recommended_max       |-> recommended_max_of(base_rate),
         base_cpm              |-> base_cpm,
         niche_multiplier      |-> niche_multiplier,
         engagement_multiplier |-> engagement_multiplier,
         geo_multiplier        |-> geo_multiplier,
         effective_cpm         |-> effective_cpm,
         views                 |-> views]

-----------------------------------------------------------------------------
(* The calculate_rate calls: arguments are drawn, then the function is     *)
(* applied to them.                                                        *)

PlatformInputs == PLATFORM_CODES \cup {" yt ", "mars"}

NicheInputs ==
    {"finance", "business", "beauty", "fashion", "tech", "gaming", "fitness",
     "health", "lifestyle", "other", "Self-Improvement"}

FollowerInputs == {None, Float(0), Float(5), Float(15), Float(50000)}

ViewInputs == {None, Float(-3), Float(0), Float(7)}

EngagementInputs ==
    {None, Rat(1, 2), Float(1), Rat(5, 2), Float(3), Float(4), Float(5)}

GeoInputs == {"us", "canada", "uk", "eu", "latam", "other", "USA"}

RateInputs ==
    [platform : PlatformInputs, niche : NicheInputs, followers : FollowerInputs,
     avg_views : ViewInputs, engagement_rate : EngagementInputs,
     geo_region : GeoInputs]

InitRate ==
    /\ rateArgs \in RateInputs
    /\ rateResult = None
    /\ IdleStats
    /\ IdleSystem

\* calculate_rate(**rateArgs)
CalculateRate ==
    /\ rateResult = None
    /\ rateResult' = calculate_rate(rateArgs.platform, rateArgs.niche,
                                    rateArgs.followers, rateArgs.avg_views,
                                    rateArgs.engagement_rate, rateArgs.geo_region)
    /\ UNCHANGED <<users, inflight, sample, statsCall, rateArgs, now, user, profile, deals,
                   negotiations, calculations, response, handled>>

NextRate == CalculateRate

SpecRate == InitRate /\ [][NextRate]_vars

-----------------------------------------------------------------------------
(* Claims about calculate_rate (checked under SpecRate).                   *)

RateCalled == rateResult # None

\* youtube / finance / 50000 followers / no avgViews / engagement 4.0 / us
ScenarioRateArgs ==
    [platform |-> "youtube", niche |-> "finance", followers |-> Float(50000),
     avg_views |-> None, engagement_rate |-> Float(4), geo_region |-> "us"]

\* views/1000 * baseCpm * nicheMultiplier * engagementMultiplier * geoMultiplier
BaseRateOf(r) ==
    RMul(RMul(RMul(RMul(Rat(r.views, 1000), Float(r.base_cpm)),
                   r.niche_multiplier), r.engagement_multiplier),
         r.geo_multiplier)

IsPositive(x) == x # None /\ x[1] > 0

\* C6 as stated: views are avgViews when positive, else followers * 0.1
\* when followers is positive (one tenth of the followers), else 0.
C6_Original ==
    RateCalled =>
        Float(rateResult.views) =
            IF IsPositive(rateArgs.avg_views) THEN rateArgs.avg_views
            ELSE IF IsPositive(rateArgs.followers)
                 THEN RMul(rateArgs.followers, Rat(1, 10))
            ELSE Float(0)

\* C6 amended: views are avgViews when positive, else followers * 0.1
\* truncated to a whole number (floor(followers / 10)) when followers is
\* positive, else 0.
C6_ViewsTruncated ==
    RateCalled =>
        rateResult.views =
            IF IsPositive(rateArgs.avg_views) THEN rateArgs.avg_views[1]
            ELSE IF IsPositive(rateArgs.followers)
                 THEN rateArgs.followers[1] \div 10
            ELSE 0

\* 15 followers and no positive avgViews: the estimate is 1 view, not 1.5
C6_Witness ==
    /\ RateCalled
    /\ rateArgs.followers = Float(15)
    /\ ~IsPositive(rateArgs.avg_views)
    /\ rateResult.views = 1

-----------------------------------------------------------------------------
(* Form parsing: to_int and to_float of the request handlers.              *)

\* int(value) of the numeric strings the model submits; None where int()
\* raises ValueError
IntParse ==
    "abc" :> None @@ "0" :> Float(0) @@ "5" :> Float(5) @@
    "15" :> Float(15) @@ "100" :> Float(100) @@ "50000" :> Float(50000) @@ "5000" :> Float(5000) @@
    "-3" :> Float(-3) @@ "7" :> Float(7) @@ "4" :> Float(4) @@
    "0.5" :> None @@ "12.5" :> None @@ " 15 " :> Float(15) @@
    "50" :> Float(50) @@ "100.0" :> None @@ "160" :> Float(160) @@
    "200" :> Float(200) @@ "1400" :> Float(1400) @@ "265.65" :> None @@
    "66.4125" :> None @@ "92.9775" :> None @@ "119.5425" :> None @@
    "132.825" :> None @@ "146.1075" :> None @@
    "1" :> Float(1) @@ "9" :> Float(9) @@ "2" :> Float(2) @@
    "3" :> Float(3) @@ "2023" :> Float(2023) @@ "2024" :> Float(2024) @@
    "10000" :> Float(10000) @@ "20000" :> Float(20000) @@
    "4999" :> Float(4999) @@ "9999" :> Float(9999) @@
    "24999" :> Float(24999) @@ "25000" :> Float(25000) @@
    "49999" :> Float(49999) @@ "99999" :> Float(99999) @@
    "100000" :> Float(100000)

\* float(value) of the same strings; None where float() raises ValueError
FloatParse ==
    "abc" :> None @@ "0" :> Float(0) @@ "5" :> Float(5) @@
    "15" :> Float(15) @@ "100" :> Float(100) @@ "50000" :> Float(50000) @@ "5000" :> Float(5000) @@
    "-3" :> Float(-3) @@ "7" :> Float(7) @@ "4" :> Float(4) @@
    "0.5" :> Rat(1, 2) @@ "12.5" :> Rat(25, 2) @@ " 15 " :> Float(15) @@
    "50" :> Float(50) @@ "100.0" :> Float(100) @@ "160" :> Float(160) @@
    "200" :> Float(200) @@ "1400" :> Float(1400) @@
    "265.65" :> Rat(5313, 20) @@ "66.4125" :> Rat(5313, 80) @@
    "92.9775" :> Rat(37191, 400) @@ "119.5425" :> Rat(47817, 400) @@
    "132.825" :> Rat(5313, 40) @@ "146.1075" :> Rat(58443, 400) @@
    "1" :> Float(1) @@ "9" :> Float(9)

\* str(i) of the follower counts a profile can hold
StrOfInt ==
    0 :> "0" @@ 5 :> "5" @@ 15 :> "15" @@ 100 :> "100" @@ 50000 :> "50000"

\* a form field that is missing (None) or blank after strip()
IsBlank(value) == value = NoneStr \/ value = ""

\* to_int: None for a missing or blank field and for a ValueError
to_int(value) == IF IsBlank(value) THEN None ELSE IntParse[value]

\* to_float: None for a missing or blank field and for a ValueError
to_float(value) == IF IsBlank(value) THEN None ELSE FloatParse[value]

-----------------------------------------------------------------------------
(* src/models.py: deal contributions                                       *)

\* followers is None or an int
bucket_follower_count(followers) ==
    IF followers = None \/ followers[1] <= 0 THEN "under_5k"
    ELSE IF followers[1] < 5000 THEN "under_5k"
    ELSE IF followers[1] < 10000 THEN "5k_10k"
    ELSE IF followers[1] < 25000 THEN "10k_25k"
    ELSE IF followers[1] < 50000 THEN "25k_50k"
    ELSE IF followers[1] < 100000 THEN "50k_100k"
    ELSE "100k_plus"

\* only a missing or a negative fee refused
deal_fee_rejected_negative(form_data) ==
    LET total_fee == to_float(form_data.total_fee_usd)
    IN  total_fee = None \/ total_fee[1] < 0

\* total_fee is None or <= 0: create_deal_contribution_from_form raises
deal_fee_rejected(form_data) ==
    LET total_fee == to_float(form_data.total_fee_usd)
    IN  total_fee = None \/ total_fee[1] <= 0

\* the negotiation_session_id column of a new deal
deal_negotiation_id(form_data) ==
    LET id == to_int(form_data.negotiation_session_id)
    IN  IF id # None /\ id[1] <= 0 THEN None ELSE id

\* the DealContribution row create_deal_contribution_from_form adds for a
\* form whose fee is accepted; id is the row's primary key
new_deal_contribution(id, user_row, form_data, created_at) ==
    LET follower_count == to_int(form_data.follower_count)
    IN  [id                     |-> id,
         user_id                |-> user_row.id,
         created_at             |-> created_at,
         platform               |-> normalize_platform(form_data.platform),
         niche                  |-> normalize_niche(form_data.niche),
         geo_region             |-> normalize_geo_region(form_data.geo_region),
         follower_count         |-> follower_count,
         follower_tier          |->
             normalize_follower_tier(bucket_follower_count(follower_count)),
         total_fee_usd          |-> to_float(form_data.total_fee_usd),
         quoted_fee_usd         |-> to_float(form_data.quoted_fee_usd),
         reported_views         |-> to_int(form_data.reported_views),
         negotiation_session_id |-> deal_negotiation_id(form_data),
         share_in_index         |-> form_data.share_in_index \notin {"false", "0"}]

\* link_negotiation_to_deal: the tables after linking the deal at index d
\* to the negotiation whose id is negotiation_id (unchanged when there is
\* no such negotiation)
link_negotiation_to_deal(deal_table, neg_table, negotiation_id, d) ==
    IF \A k \in 1..Len(neg_table) : neg_table[k].id # negotiation_id
    THEN [deals |-> deal_table, negotiations |-> neg_table]
    ELSE LET k == CHOOSE j \in 1..Len(neg_table) : neg_table[j].id = negotiation_id
         IN  [deals |-> [deal_table EXCEPT
                            ![d].negotiation_session_id = Float(negotiation_id)],
              negotiations |-> [neg_table EXCEPT
                  ![k].final_agreed_fee_usd = deal_table[d].total_fee_usd,
                  ![k].outcome = IF neg_table[k].outcome \in {NoneStr, ""}
                                 THEN "accepted" ELSE neg_table[k].outcome]]

\* the form after deal_new_submit filled missing fields from the profile
\* and normalised the codes that are present
deal_form_data(form) ==
    LET filled ==
            IF profile = None THEN form
            ELSE [form EXCEPT
                    !.follower_count =
                        IF IsBlank(form.follower_count) /\ profile.followers # None
                        THEN StrOfInt[profile.followers[1]] ELSE form.follower_count,
                    !.niche =
                        IF IsBlank(form.niche) /\ ~IsBlank(profile.niche)
                        THEN profile.niche ELSE form.niche,
                    !.geo_region =
                        IF IsBlank(form.geo_region) /\ ~IsBlank(profile.audience_location)
                        THEN profile.audience_location ELSE form.geo_region,
                    !.platform =
                        IF IsBlank(form.platform) /\ ~IsBlank(profile.primary_platform)
                        THEN profile.primary_platform ELSE form.platform]
    IN  [filled EXCEPT
            !.platform = IF IsBlank(filled.platform) THEN filled.platform
                         ELSE normalize_platform(filled.platform),
            !.niche = IF IsBlank(filled.niche) THEN filled.niche
                      ELSE normalize_niche(filled.niche),
            !.geo_region = IF IsBlank(filled.geo_region) THEN filled.geo_region
                           ELSE normalize_geo_region(filled.geo_region)]

\* POST /deals/new
DealNewSubmit(form) ==
    LET form_data == deal_form_data(form)
        id == Len(deals) + 1
        contribution == new_deal_contribution(id, user, form_data, now)
        negotiation_id == to_int(form_data.negotiation_session_id)
        linked ==
            IF negotiation_id # None /\ negotiation_id[1] # 0
            THEN link_negotiation_to_deal(Append(deals, contribution),
                                          negotiations, negotiation_id[1], id)
            ELSE [deals |-> Append(deals, contribution),
                  negotiations |-> negotiations]
    IN  /\ IF deal_fee_rejected(form_data)
           THEN /\ response' = [handler |-> "deal_new", status |-> 400,
                                 form_data |-> form_data]
                /\ UNCHANGED <<deals, negotiations>>
           ELSE /\ response' = [handler |-> "deal_new", status |-> 303]
                /\ deals' = linked.deals
                /\ negotiations' = linked.negotiations
        /\ UNCHANGED <<users, inflight, sample, statsCall, rateArgs, rateResult, now, user, profile,
                       calculations>>

-----------------------------------------------------------------------------
(* src/stats_helpers.py: community pricing                                 *)

\* the query without its share_in_index condition
bucket_rows_unshared(deal_table, platform, niche, follower_tier, geo_region) ==
    LET Selected(row) ==
            /\ row.platform = platform
            /\ row.niche = niche
            /\ row.follower_tier = follower_tier
            /\ row.total_fee_usd[1] > 0
            /\ (~IsBlank(geo_region) /\ geo_region # "other"
                   => row.geo_region = geo_region)
    IN  SelectSeq(deal_table, Selected)

\* the rows the query of get_bucket_community_pricing selects
bucket_rows(deal_table, platform, niche, follower_tier, geo_region) ==
    LET Selected(row) ==
            /\ row.share_in_index = TRUE
            /\ row.platform = platform
            /\ row.niche = niche
            /\ row.follower_tier = follower_tier
            /\ row.total_fee_usd[1] > 0
            /\ (~IsBlank(geo_region) /\ geo_region # "other"
                   => row.geo_region = geo_region)
    IN  SelectSeq(deal_table, Selected)

\* [float(row.total_fee_usd) for row in rows if row.total_fee_usd is not None]
RECURSIVE fees_of(_)
fees_of(rows) ==
    IF rows = <<>> THEN <<>>
    ELSE IF Head(rows).total_fee_usd = None THEN fees_of(Tail(rows))
    ELSE <<Head(rows).total_fee_usd>> \o fees_of(Tail(rows))

\* the threshold test as len(fees) <= min_deals
community_pricing_le(deal_table, platform, niche, follower_tier, geo_region, min_deals) ==
    LET rows == bucket_rows(deal_table, platform, niche, follower_tier, geo_region)
        fees == fees_of(rows)
        summary == summarize_fees_outlier_safe(fees)
    IN  IF Len(fees) <= min_deals THEN None
        ELSE [deal_count |-> summary.count,
              avg_fee    |-> summary.avg,
              median_fee |-> summary.median,
              min_fee    |-> summary.min,
              max_fee    |-> summary.max]

get_bucket_community_pricing(deal_table, platform, niche, follower_tier, geo_region, min_deals) ==
    LET rows == bucket_rows(deal_table, platform, niche, follower_tier, geo_region)
        fees == fees_of(rows)
        summary == summarize_fees_outlier_safe(fees)
    IN  IF Len(fees) < min_deals THEN None
        ELSE [deal_count |-> summary.count,
              avg_fee    |-> summary.avg,
              median_fee |-> summary.median,
              min_fee    |-> summary.min,
              max_fee    |-> summary.max]

-----------------------------------------------------------------------------
(* src/main.py: calculator_submit                                          *)

\* str.lower() of the plan names
Lower ==
    "free" :> "free" @@ "pro" :> "pro" @@ "premium" :> "premium"
    @@ "Premium" :> "premium" @@ "PRO" :> "pro"

\* (user.plan or "free").lower() in allowed_plans
plan_allows(user_row, allowed_plans) ==
    Lower[IF user_row.plan \in {NoneStr, ""} THEN "free" ELSE user_row.plan]
        \in allowed_plans

\* the free plan's calculations per month
FREE_MONTHLY_CALCULATIONS == 3

\* min_deals passed by calculator_submit, and its deal_count guard
MIN_COMMUNITY_DEALS == 5

\* the calculations of the user created in the current month; the model
\* spans a single calendar month, so these are all of the user's rows
month_count(calc_table, user_row) ==
    Len(SelectSeq(calc_table, LAMBDA row : row.user_id = user_row.id))

\* (min + max) / 2 if (min + max) > 0 else 0
band_mid(band_min, band_max) ==
    IF RAdd(band_min, band_max)[1] > 0
    THEN RDiv(RAdd(band_min, band_max), Float(2))
    ELSE Float(0)

\* the guard 0.5 <= ratio <= 2.0 with both comparisons strict
ratio_in_guard_strict(ratio) == RLt(Rat(1, 2), ratio) /\ RLt(ratio, Float(2))

\* 0.5 <= ratio <= 2.0
ratio_in_guard(ratio) == RLe(Rat(1, 2), ratio) /\ RLe(ratio, Float(2))

\* final_mid = (0.6 * baseline_mid) + (0.4 * community_mid)
final_mid_of(baseline_mid, community_mid) ==
    RAdd(RMul(Rat(6, 10), baseline_mid), RMul(Rat(4, 10), community_mid))

\* the community lookup of calculator_submit: None without a follower count
calculator_community_pricing(deal_table, platform_code, niche_code, followers_value, geo_region_code) ==
    IF followers_value = None THEN None
    ELSE get_bucket_community_pricing(
             deal_table, platform_code, niche_code,
             normalize_follower_tier(bucket_follower_count(followers_value)),
             geo_region_code, MIN_COMMUNITY_DEALS)

\* the form fields of calculator_submit, parsed and normalised
calculator_inputs(form) ==
    [followers       |-> to_int(form.followers),
     avg_views       |-> to_int(form.avg_views),
     engagement_rate |-> to_float(form.engagement_rate),
     platform        |-> normalize_platform(form.platform),
     niche           |-> normalize_niche(form.niche),
     geo_region      |-> normalize_geo_region(IF IsBlank(form.geo_region)
                                              THEN "us" ELSE form.geo_region)]

\* the blend of the baseline result with the community pricing: the result
\* dict with its final band, and the community note (None, or the deal
\* count and community median the note quotes)
calculator_blend(result, community_pricing) ==
    LET baseline_mid == band_mid(result.recommended_min, result.recommended_max)
        usable == /\ community_pricing # None
                  /\ community_pricing.deal_count >= MIN_COMMUNITY_DEALS
                  /\ community_pricing.median_fee # None
                  /\ baseline_mid[1] > 0
        community_mid == community_pricing.median_fee
        blend == usable /\ ratio_in_guard(RDiv(community_mid, baseline_mid))
        final_mid == final_mid_of(baseline_mid, community_mid)
    IN  [result |->
             IF blend
             THEN [result EXCEPT !.recommended_min = RMul(final_mid, Rat(8, 10)),
                                 !.recommended_max = RMul(final_mid, Rat(12, 10))]
             ELSE result,
         community_note |->
             IF blend THEN <<community_pricing.deal_count, community_mid>>
             ELSE None]

\* the part of calculator_submit after the monthly limit, for parsed inputs
calculator_result(deal_table, in) ==
    calculator_blend(
        calculate_rate(in.platform, in.niche, in.followers, in.avg_views,
                       in.engagement_rate, in.geo_region),
        calculator_community_pricing(deal_table, in.platform, in.niche,
                                     in.followers, in.geo_region))

\* the ToolCalculation row calculator_submit stores
new_tool_calculation(user_row, in, result) ==
    [user_id |-> user_row.id,
     platform |-> in.platform,
     niche |-> in.niche,
     geo_region |-> in.geo_region,
     followers |-> in.followers,
     avg_views |-> in.avg_views,
     engagement_rate |-> in.engagement_rate,
     recommended_min |-> result.recommended_min,
     recommended_max |-> result.recommended_max,
     cpmm_base |-> result.base_cpm,
     engagement_multiplier |-> result.engagement_multiplier,
     geo_multiplier |-> result.geo_multiplier]

\* the response of calculator_submit below the monthly limit
calculator_response(form, out) ==
    [handler |-> "calculator", limit_reached |-> FALSE, form |-> form,
     result |-> out.result, community_note |-> out.community_note]

\* calculator_submit below the monthly limit: store the row, render the result
calculator_store(form, in, out) ==
    /\ calculations' = Append(calculations,
                              new_tool_calculation(user, in, out.result))
    /\ response' = calculator_response(form, out)

\* the month's rows are counted for a free user only: month_count >= 3
month_limit_reached(calc_table, user_row) ==
    /\ ~plan_allows(user_row, {"pro", "premium"})
    /\ month_count(calc_table, user_row) >= FREE_MONTHLY_CALCULATIONS

\* the page telling that the free calculations of the month are used up
limit_page(form) ==
    [handler |-> "calculator", limit_reached |-> TRUE, form |-> form,
     result |-> None, community_note |-> None]

\* POST /calculator
CalculatorSubmit(form) ==
    /\ IF month_limit_reached(calculations, user)
       THEN /\ response' = limit_page(form)
            /\ UNCHANGED calculations
       ELSE calculator_store(form, calculator_inputs(form),
                             calculator_result(deals, calculator_inputs(form)))
    /\ UNCHANGED <<users, inflight, sample, statsCall, rateArgs, rateResult, now, user, profile,
                   deals, negotiations>>

-----------------------------------------------------------------------------
(* Deal submissions and calculator requests against a pool of shared deals *)

\* requests handled in one behaviour
MaxRequests == 3

DealForm(platform, niche, geo, followers, fee, share) ==
    [platform |-> platform, niche |-> niche, geo_region |-> geo,
     follower_count |-> followers, total_fee_usd |-> fee,
     quoted_fee_usd |-> NoneStr, reported_views |-> NoneStr,
     negotiation_session_id |-> NoneStr, share_in_index |-> share]

\* a shared youtube / finance / 50k-100k / us deal with the given fee
CohortDealForm(fee) == DealForm("youtube", "finance", "us", "50000", fee, "on")

\* the fees of cohort deals: near the baseline, ten times it, exactly
\* twice and exactly half the scenario's baseline midpoint 132.825
CohortFees == {"160", "1400", "265.65", "66.4125"}

DealForms ==
    {CohortDealForm(fee) : fee \in {"160", "1400", "0"}}
    \cup {DealForm("tiktok", "finance", "us", "50000", "160", "on"),
          DealForm("youtube", "beauty", "us", "50000", "160", "on"),
          DealForm("youtube", "finance", "uk", "50000", "160", "on"),
          DealForm("youtube", "finance", "us", "100", "160", "on"),
          DealForm("youtube", "finance", "us", "50000", "160", "false")}

CalcForm(followers, avg_views, geo) ==
    [platform |-> "YouTube", niche |-> "Finance", followers |-> followers,
     avg_views |-> avg_views, engagement_rate |-> "4", geo_region |-> geo]

CalculatorForms ==
    {CalcForm("50000", "", "us"), CalcForm("50000", "", "other"),
     CalcForm("", "5000", "us"), CalcForm("", "", "us")}

FreeUser == [id |-> 1, plan |-> "free"]

\* the pool after four earlier submissions of one cohort deal form
RECURSIVE SubmitAll(_, _)
SubmitAll(table, forms) ==
    IF forms = <<>> THEN table
    ELSE SubmitAll(Append(table,
                          new_deal_contribution(Len(table) + 1, FreeUser,
                                                Head(forms), Epoch)),
                   Tail(forms))

SeededPools ==
    {<<>>} \cup {SubmitAll(<<>>, [i \in 1..4 |-> CohortDealForm(fee)]) :
                    fee \in CohortFees}

\* a calculation of the month already stored for the user
StoredCalculation ==
    new_tool_calculation(
        FreeUser, calculator_inputs(CalcForm("50000", "", "us")),
        calculator_result(<<>>, calculator_inputs(CalcForm("50000", "", "us"))).result)

SeededCalculations == [i \in 1..2 |-> StoredCalculation]

NoResponse == [handler |-> "none"]

InitCalc ==
    /\ now = Epoch
    /\ user \in {FreeUser, [id |-> 1, plan |-> "PRO"]}
    /\ profile = None
    /\ deals \in SeededPools
    /\ negotiations = <<>>
    /\ calculations = SeededCalculations
    /\ response = NoResponse
    /\ handled = 0
    /\ users = <<>>
    /\ inflight = {}
    /\ IdleStats
    /\ IdleRate

SubmitDeal ==
    /\ handled < MaxRequests
    /\ handled' = handled + 1
    /\ \E form \in DealForms : DealNewSubmit(form)

SubmitCalculator ==
    /\ handled < MaxRequests
    /\ handled' = handled + 1
    /\ \E form \in CalculatorForms : CalculatorSubmit(form)

\* the cohort keys and thresholds get_bucket_community_pricing is asked for
CohortKeys ==
    [platform : {"youtube"}, niche : {"finance"}, follower_tier : {"50k_100k"},
     geo_region : {"us", "other", NoneStr}, min_deals : {2, 5}]

\* a call of get_bucket_community_pricing on the current deal table
BucketCommunityPricing ==
    /\ handled < MaxRequests
    /\ handled' = handled + 1
    /\ \E key \in CohortKeys :
           statsCall' =
               [op     |-> "get_bucket_community_pricing",
                arg    |-> [session |-> deals, key |-> key],
                result |-> get_bucket_community_pricing(
                               deals, key.platform, key.niche, key.follower_tier,
                               key.geo_region, key.min_deals)]
    /\ UNCHANGED <<users, inflight, sample, rateArgs, rateResult, now, user, profile, deals,
                   negotiations, calculations, response>>

NextCalc == SubmitDeal \/ SubmitCalculator \/ BucketCommunityPricing

SpecCalc == InitCalc /\ [][NextCalc]_vars

-----------------------------------------------------------------------------
(* Claims about the calculator and community pricing (checked under        *)
(* SpecCalc).                                                              *)

\* the last response is a calculator result page; the deal table has not
\* changed since the handler read it
CalculatorAnswered ==
    response.handler = "calculator" /\ ~response.limit_reached

\* the blended band for baseline midpoint B and community median C
BlendedBand(B, C) ==
    LET finalMid == RAdd(RMul(Rat(6, 10), B), RMul(Rat(4, 10), C))
    IN  <<RMul(Rat(8, 10), finalMid), RMul(Rat(12, 10), finalMid)>>

\* the cohort met the threshold and 0.5 <= C/B <= 2.0
BlendCondition(B, pricing) ==
    /\ pricing # None
    /\ B[1] > 0
    /\ RLe(RMul(Rat(1, 2), B), pricing.median_fee)
    /\ RLe(pricing.median_fee, RMul(Float(2), B))

\* what the calculator must answer for the RateModel result and the
\* cohort's pricing
BandAsClaimed(answer, note, rate, B, pricing) ==
    IF BlendCondition(B, pricing)
    THEN /\ <<answer.recommended_min, answer.recommended_max>>
                = BlendedBand(B, pricing.median_fee)
         /\ note = <<pricing.deal_count, pricing.median_fee>>
    ELSE /\ answer = rate
         /\ note = None

BandOfInputs(answer, note, rate, pricing) ==
    BandAsClaimed(answer, note, rate,
                  RDiv(RAdd(rate.recommended_min, rate.recommended_max), Float(2)),
                  pricing)

BandOfForm(in) ==
    BandOfInputs(response.result, response.community_note,
                 calculate_rate(in.platform, in.niche, in.followers,
                                in.avg_views, in.engagement_rate, in.geo_region),
                 calculator_community_pricing(deals, in.platform, in.niche,
                                              in.followers, in.geo_region))

\* C7: the calculator's band is the blended band (finalMid = 0.6 B + 0.4 C,
\* min = 0.8 finalMid, max = 1.2 finalMid), with a community note, exactly
\* when the cohort met the minimum-sample threshold and 0.5 <= C/B <= 2.0
\* (bounds inclusive); otherwise the RateModel band is returned unmodified
\* and no community note is emitted.
C7_BlendGuard ==
    CalculatorAnswered => BandOfForm(calculator_inputs(response.form))

\* a cohort whose median is exactly twice the baseline midpoint 132.825 has
\* been blended: band 0.8 * 185.955 .. 1.2 * 185.955 with a note
C7_Witness ==
    /\ CalculatorAnswered
    /\ response.community_note = <<5, Rat(5313, 20)>>
    /\ response.result.recommended_min = Rat(148764, 1000)
    /\ response.result.recommended_max = Rat(223146, 1000)

\* the cohort key's conditions on a deal row, geography included
RowInCohort(row, key) ==
    /\ row.share_in_index
    /\ row.total_fee_usd[1] > 0
    /\ row.platform = key.platform
    /\ row.niche = key.niche
    /\ row.follower_tier = key.follower_tier

PricingReturned ==
    /\ statsCall.op = "get_bucket_community_pricing"
    /\ statsCall.result # None

\* the rows that contributed to the returned pricing
ContributingRows ==
    bucket_rows(statsCall.arg.session, statsCall.arg.key.platform,
                statsCall.arg.key.niche, statsCall.arg.key.follower_tier,
                statsCall.arg.key.geo_region)

\* C8 as stated: every deal that contributes to a returned CohortPricing is
\* shared, has a positive fee and the platform, niche, follower tier and
\* geography of the cohort key, for every key including geography "other".
C8_Original ==
    PricingReturned =>
        \A i \in 1..Len(ContributingRows) :
            /\ RowInCohort(ContributingRows[i], statsCall.arg.key)
            /\ ContributingRows[i].geo_region = statsCall.arg.key.geo_region

\* C8 amended: every contributing deal is shared, has a positive fee and the
\* platform, niche and follower tier of the cohort key, and the geography of
\* the key when the key's geography is given and is not "other"; for the
\* geography "other" (or none) deals of every geography contribute.
C8_CohortRows ==
    PricingReturned =>
        \A i \in 1..Len(ContributingRows) :
            /\ RowInCohort(ContributingRows[i], statsCall.arg.key)
            /\ (statsCall.arg.key.geo_region \notin {NoneStr, "", "other"}
                   => ContributingRows[i].geo_region = statsCall.arg.key.geo_region)

\* a pricing for the "us" cohort was returned from a table that also holds
\* an unshared deal or a deal of another geography, which did not contribute
C8_Witness ==
    /\ PricingReturned
    /\ statsCall.arg.key.geo_region = "us"
    /\ Len(ContributingRows) < Len(statsCall.arg.session)
    /\ \E i \in 1..Len(statsCall.arg.session) :
           \/ ~statsCall.arg.session[i].share_in_index
           \/ statsCall.arg.session[i].geo_region = "uk"

\* the positions of the table's rows that match the cohort key
MatchingRecords ==
    {i \in 1..Len(statsCall.arg.session) :
        /\ RowInCohort(statsCall.arg.session[i], statsCall.arg.key)
        /\ (statsCall.arg.key.geo_region \notin {NoneStr, "", "other"}
               => statsCall.arg.session[i].geo_region
                      = statsCall.arg.key.geo_region)}

\* the pricing agrees with the outlier-safe summary of the given fees
PricingOfSummary(pricing, summary) ==
    /\ pricing.avg_fee = summary.avg
    /\ pricing.median_fee = summary.median
    /\ pricing.min_fee = summary.min
    /\ pricing.max_fee = summary.max

\* C9: get_bucket_community_pricing returns None exactly when fewer than
\* min_deals matching records exist, and otherwise a CohortPricing whose
\* deal_count is the number of matching records and whose avg, median, min
\* and max are those of the outlier-safe fee summary of those records.
C9_NoSignalBelowThreshold ==
    statsCall.op = "get_bucket_community_pricing" =>
        /\ statsCall.result = None
               <=> Cardinality(MatchingRecords) < statsCall.arg.key.min_deals
        /\ statsCall.result # None =>
               /\ statsCall.result.deal_count = Cardinality(MatchingRecords)
               /\ statsCall.result.deal_count > 0
               /\ PricingOfSummary(
                      statsCall.result,
                      summarize_fees_outlier_safe(
                          [i \in 1..Len(ContributingRows) |->
                              ContributingRows[i].total_fee_usd]))

\* a pricing was returned for exactly min_deals = 5 matching records, and
\* none for the same key one record earlier
C9_Witness ==
    /\ PricingReturned
    /\ statsCall.arg.key.min_deals = 5
    /\ statsCall.result.deal_count = 5
    /\ Len(statsCall.arg.session) > 5

-----------------------------------------------------------------------------
(* src/main.py: negotiation_submit                                         *)

INSUFFICIENT_DATA ==
    "We couldn't estimate a fair market range from the provided metrics."

\* x or fallback, for a number x that may be None
OrElse(x, fallback) == IF x = None \/ x[1] = 0 THEN fallback ELSE x

\* a form value, or the profile's value when the form has none and a
\* profile exists
form_or_profile(value, profile_row, field) ==
    IF value = None /\ profile_row # None THEN profile_row[field] ELSE value

\* avg_views_value: the form's, else the profile's, else a tenth of a
\* non-zero follower count
negotiation_avg_views(avg_views_value, followers_value) ==
    IF avg_views_value = None /\ followers_value[1] # 0
    THEN Float(IntOf(RMul(followers_value, Rat(1, 10))))
    ELSE avg_views_value

\* the metrics negotiation_submit passes to calculate_rate, for the
\* follower count already defaulted
negotiation_metrics(form, profile_row, followers_value) ==
    [platform        |-> normalize_platform(form.platform),
     niche           |-> normalize_niche(form.niche),
     geo_region      |-> normalize_geo_region(IF IsBlank(form.geo_region)
                                              THEN "us" ELSE form.geo_region),
     followers       |-> followers_value,
     avg_views       |-> negotiation_avg_views(
                             form_or_profile(to_int(form.avg_views),
                                             profile_row, "avg_views"),
                             followers_value),
     engagement_rate |-> LET engagement_value ==
                                 form_or_profile(to_float(form.engagement_rate),
                                                 profile_row, "engagement_rate")
                         IN  IF engagement_value = None THEN Float(3)
                             ELSE engagement_value,
     brand_offer     |-> OrElse(to_float(form.brand_offer), Float(0))]

negotiation_inputs(form, profile_row) ==
    negotiation_metrics(form, profile_row,
                        OrElse(form_or_profile(to_int(form.followers),
                                               profile_row, "followers"),
                               Float(0)))

\* the assessment bands with thresholds that exclude -30, -10 and 10
assessment_text_strict(offer_vs_market_pct) ==
    IF offer_vs_market_pct = None THEN INSUFFICIENT_DATA
    ELSE IF RLt(offer_vs_market_pct, Float(-30))
    THEN "This offer is more than 30% below our estimate of fair market value for your metrics."
    ELSE IF RLt(offer_vs_market_pct, Float(-10))
    THEN "This offer is below market value; there's room to negotiate up."
    ELSE IF RLt(offer_vs_market_pct, Float(10))
    THEN "This offer is roughly in line with market value for your niche and audience."
    ELSE "This offer is above typical market value for your metrics."

\* the assessment text for the offer-vs-market percentage
assessment_text_of(offer_vs_market_pct) ==
    IF offer_vs_market_pct = None THEN INSUFFICIENT_DATA
    ELSE IF RLe(offer_vs_market_pct, Float(-30))
    THEN "This offer is more than 30% below our estimate of fair market value for your metrics."
    ELSE IF RLe(offer_vs_market_pct, Float(-10))
    THEN "This offer is below market value; there's room to negotiate up."
    ELSE IF RLe(offer_vs_market_pct, Float(10))
    THEN "This offer is roughly in line with market value for your niche and audience."
    ELSE "This offer is above typical market value for your metrics."

\* the counter band anchored at mid-market only for offers more than 10% below
counter_band_strict(market_mid, market_max, offer_vs_market_pct) ==
    IF offer_vs_market_pct # None /\ RLt(offer_vs_market_pct, Float(-10))
    THEN <<market_mid, RMul(market_max, Rat(11, 10))>>
    ELSE <<RMul(market_mid, Rat(9, 10)), RMul(market_max, Rat(105, 100))>>

\* the counter band for a positive market midpoint
counter_band(market_mid, market_max, offer_vs_market_pct) ==
    IF offer_vs_market_pct # None /\ RLe(offer_vs_market_pct, Float(-10))
    THEN <<market_mid, RMul(market_max, Rat(11, 10))>>
    ELSE <<RMul(market_mid, Rat(9, 10)), RMul(market_max, Rat(105, 100))>>

\* the assessment with a counter band whatever the market midpoint
assessment_of_mid_always_counter(brand_offer, market_mid, market_max, offer_vs_market_pct) ==
    [offer_vs_market_pct |-> offer_vs_market_pct,
     assessment_text |-> assessment_text_of(offer_vs_market_pct),
     recommended_counter_min |->
         counter_band(market_mid, market_max, offer_vs_market_pct)[1],
     recommended_counter_max |->
         counter_band(market_mid, market_max, offer_vs_market_pct)[2]]

\* assessment text and counter band from the midpoint and the percentage
assessment_of_mid(brand_offer, market_mid, market_max, offer_vs_market_pct) ==
    [offer_vs_market_pct |-> offer_vs_market_pct,
     assessment_text |-> assessment_text_of(offer_vs_market_pct),
     recommended_counter_min |->
         IF market_mid[1] > 0
         THEN counter_band(market_mid, market_max, offer_vs_market_pct)[1]
         ELSE None,
     recommended_counter_max |->
         IF market_mid[1] > 0
         THEN counter_band(market_mid, market_max, offer_vs_market_pct)[2]
         ELSE None]

\* offer_vs_market_pct = ((brand_offer - market_mid) / market_mid) * 100
\* when market_mid > 0, else None
offer_vs_market_pct_of(brand_offer, market_mid) ==
    IF market_mid[1] > 0
    THEN RMul(RDiv(RSub(brand_offer, market_mid), market_mid), Float(100))
    ELSE None

negotiation_assessment_mid(brand_offer, market_mid, market_max) ==
    assessment_of_mid(brand_offer, market_mid, market_max,
                      offer_vs_market_pct_of(brand_offer, market_mid))

\* the assessment of an offer against the market band
negotiation_assessment(brand_offer, market_min, market_max) ==
    negotiation_assessment_mid(brand_offer, band_mid(market_min, market_max),
                               market_max)

\* the NegotiationSession row negotiation_submit stores
new_negotiation_session(id, user_row, in, result, assessment) ==
    [id                      |-> id,
     user_id                 |-> user_row.id,
     platform                |-> in.platform,
     niche                   |-> in.niche,
     geo_region              |-> in.geo_region,
     followers               |-> OrElse(in.followers, None),
     avg_views               |-> OrElse(in.avg_views, None),
     engagement_rate         |-> in.engagement_rate,
     brand_offer             |-> in.brand_offer,
     market_min              |-> result.recommended_min,
     market_max              |-> result.recommended_max,
     offer_vs_market_pct     |-> assessment.offer_vs_market_pct,
     recommended_counter_min |-> assessment.recommended_counter_min,
     recommended_counter_max |-> assessment.recommended_counter_max,
     assessment_text         |-> assessment.assessment_text,
     status                  |-> "draft",
     final_agreed_fee_usd    |-> None,
     outcome                 |-> NoneStr]

negotiation_of_result(id, user_row, in, result) ==
    new_negotiation_session(
        id, user_row, in, result,
        negotiation_assessment(in.brand_offer, result.recommended_min,
                               result.recommended_max))

negotiation_of_inputs(id, user_row, in) ==
    negotiation_of_result(
        id, user_row, in,
        calculate_rate(in.platform, in.niche, in.followers, in.avg_views,
                       in.engagement_rate, in.geo_region))

\* the page rendered for the stored negotiation
negotiation_page(form, negotiation) ==
    [handler |-> "negotiation", status |-> 200,
     form_data |-> [form EXCEPT !.platform = negotiation.platform,
                                !.niche = negotiation.niche,
                                !.geo_region = negotiation.geo_region],
     market_range |-> <<negotiation.market_min, negotiation.market_max>>,
     counter_range |-> <<negotiation.recommended_counter_min,
                         negotiation.recommended_counter_max>>]

\* the negotiation is stored and its page rendered
negotiation_store(form, negotiation) ==
    /\ negotiations' = Append(negotiations, negotiation)
    /\ response' = negotiation_page(form, negotiation)

\* POST /negotiation
NegotiationSubmit(form) ==
    /\ IF ~plan_allows(user, {"premium"})
       THEN /\ response' = [handler |-> "negotiation", status |-> 303]
            /\ UNCHANGED negotiations
       ELSE negotiation_store(
                form, negotiation_of_inputs(Len(negotiations) + 1, user,
                                            negotiation_inputs(form, profile)))
    /\ UNCHANGED <<users, inflight, sample, statsCall, rateArgs, rateResult, now, user, profile,
                   deals, calculations>>

-----------------------------------------------------------------------------
(* Negotiations of one user, and deals reported against them               *)

NegotiationForm(followers, engagement_rate, brand_offer) ==
    [platform |-> "youtube", niche |-> "finance", geo_region |-> "us",
     followers |-> followers, avg_views |-> "",
     engagement_rate |-> engagement_rate, brand_offer |-> brand_offer]

\* offers around the scenario's market midpoint 132.825: exactly 30% and 10%
\* below it, at it and 10% above it, and offers beyond; then forms without
\* metrics, with no offer and with zero followers
NegotiationForms ==
    {NegotiationForm("50000", "4", offer) :
        offer \in {"50", "92.9775", "100", "119.5425", "132.825", "146.1075",
                   "200"}}
    \cup {NegotiationForm("", "", "100"), NegotiationForm("50000", "", ""),
          NegotiationForm("0", "4", "100")}

\* deals reported for the first negotiation, for one that does not exist,
\* and for none, and a deal with another fee for the first negotiation
LinkedDealForms ==
    {[CohortDealForm("160") EXCEPT !.negotiation_session_id = id] :
        id \in {"1", "9", NoneStr}}
    \cup {[CohortDealForm("200") EXCEPT !.negotiation_session_id = "1"]}

CreatorProfiles ==
    {None,
     [followers |-> Float(50000), avg_views |-> None,
      engagement_rate |-> Float(4), niche |-> "finance",
      audience_location |-> "us", primary_platform |-> "youtube"],
     [followers |-> None, avg_views |-> None, engagement_rate |-> None,
      niche |-> NoneStr, audience_location |-> NoneStr,
      primary_platform |-> "youtube"]}

InitNeg ==
    /\ now = Epoch
    /\ user \in {[id |-> 1, plan |-> plan] : plan \in {"free", "premium", "Premium"}}
    /\ profile \in CreatorProfiles
    /\ deals = <<>>
    /\ negotiations = <<>>
    /\ calculations = <<>>
    /\ response = NoResponse
    /\ handled = 0
    /\ users = <<>>
    /\ inflight = {}
    /\ IdleStats
    /\ IdleRate

SubmitNegotiation ==
    /\ handled < MaxRequests
    /\ handled' = handled + 1
    /\ \E form \in NegotiationForms : NegotiationSubmit(form)

ReportDeal ==
    /\ handled < MaxRequests
    /\ handled' = handled + 1
    /\ \E form \in LinkedDealForms : DealNewSubmit(form)

NextNeg == SubmitNegotiation \/ ReportDeal

SpecNeg == InitNeg /\ [][NextNeg]_vars

-----------------------------------------------------------------------------
(* Claims about stored negotiations (checked under SpecNeg).               *)

MarketMid(row) == RDiv(RAdd(row.market_min, row.market_max), Float(2))

\* C10: in every stored NegotiationRecord, offer_vs_market_pct is defined if
\* and only if the market midpoint (market_min + market_max) / 2 is strictly
\* positive; when it is not positive, no percentage and no counter band are
\* stored and the assessment is the insufficient-data text.
C10_PctIffPositiveMid ==
    \A i \in 1..Len(negotiations) :
        /\ negotiations[i].offer_vs_market_pct # None
               <=> MarketMid(negotiations[i])[1] > 0
        /\ MarketMid(negotiations[i])[1] <= 0 =>
               /\ negotiations[i].offer_vs_market_pct = None
               /\ negotiations[i].recommended_counter_min = None
               /\ negotiations[i].recommended_counter_max = None
               /\ negotiations[i].assessment_text = INSUFFICIENT_DATA

\* two stored negotiations: one without a market (midpoint 0, nothing
\* computed) and one with a positive midpoint and a percentage
C10_Witness ==
    \E i, j \in 1..Len(negotiations) :
        /\ MarketMid(negotiations[i])[1] = 0
        /\ negotiations[i].offer_vs_market_pct = None
        /\ negotiations[i].recommended_counter_min = None
        /\ MarketMid(negotiations[j])[1] > 0
        /\ negotiations[j].offer_vs_market_pct = Float(-30)

\* offer-vs-market percentage of a stored row, from its offer and market band
PctOfRow(row) ==
    RMul(RDiv(RSub(row.brand_offer, MarketMid(row)), MarketMid(row)), Float(100))

FAR_BELOW_MARKET ==
    "This offer is more than 30% below our estimate of fair market value for your metrics."

BELOW_MARKET == "This offer is below market value; there's room to negotiate up."

IN_LINE_WITH_MARKET ==
    "This offer is roughly in line with market value for your niche and audience."

ABOVE_MARKET == "This offer is above typical market value for your metrics."

\* the band of a percentage p, the thresholds belonging to the lower band
AssessmentBand(p) ==
    IF RLe(p, Float(-30)) THEN FAR_BELOW_MARKET
    ELSE IF RLt(Float(-30), p) /\ RLe(p, Float(-10)) THEN BELOW_MARKET
    ELSE IF RLt(Float(-10), p) /\ RLe(p, Float(10)) THEN IN_LINE_WITH_MARKET
    ELSE ABOVE_MARKET

AssessedAsClaimed(row, p) ==
    /\ row.offer_vs_market_pct = p
    /\ row.assessment_text = AssessmentBand(p)
    /\ (row.brand_offer = MarketMid(row) =>
           p = Float(0) /\ row.assessment_text = IN_LINE_WITH_MARKET)

\* C11: for a defined offer-vs-market percentage p the assessment is far
\* below market for p <= -30, below market for -30 < p <= -10, in line with
\* market for -10 < p <= 10 and above market for p > 10; an offer exactly at
\* the market midpoint has p = 0 and the in-line assessment.
C11_AssessmentBands ==
    \A i \in 1..Len(negotiations) :
        negotiations[i].offer_vs_market_pct # None =>
            AssessedAsClaimed(negotiations[i], PctOfRow(negotiations[i]))

\* stored negotiations exactly at -30%, at -10% and at the midpoint, each
\* with the assessment of its band
C11_Witness ==
    \E i, j, k \in 1..Len(negotiations) :
        /\ negotiations[i].offer_vs_market_pct = Float(-30)
        /\ negotiations[i].assessment_text = FAR_BELOW_MARKET
        /\ negotiations[j].offer_vs_market_pct = Float(-10)
        /\ negotiations[j].assessment_text = BELOW_MARKET
        /\ negotiations[k].offer_vs_market_pct = Float(0)
        /\ negotiations[k].assessment_text = IN_LINE_WITH_MARKET

CounterAsClaimed(row, mid, p) ==
    IF RLe(p, Float(-10))
    THEN /\ row.recommended_counter_min = mid
         /\ row.recommended_counter_max = RMul(row.market_max, Rat(11, 10))
    ELSE /\ row.recommended_counter_min = RMul(mid, Rat(9, 10))
         /\ row.recommended_counter_max = RMul(row.market_max, Rat(105, 100))

\* C12: when the market midpoint is positive the counter band is
\* (marketMid, marketMax * 1.1) if the offer-vs-market percentage is <= -10
\* and (marketMid * 0.9, marketMax * 1.05) otherwise.
C12_CounterBand ==
    \A i \in 1..Len(negotiations) :
        MarketMid(negotiations[i])[1] > 0 =>
            CounterAsClaimed(negotiations[i], MarketMid(negotiations[i]),
                             PctOfRow(negotiations[i]))

\* a stored offer exactly 10% below the midpoint 132.825 is countered from
\* the midpoint, and one in line with the market from 0.9 of it
C12_Witness ==
    \E i, j \in 1..Len(negotiations) :
        /\ negotiations[i].offer_vs_market_pct = Float(-10)
        /\ negotiations[i].recommended_counter_min = Rat(5313, 40)
        /\ negotiations[j].offer_vs_market_pct = Float(0)
        /\ negotiations[j].recommended_counter_min = Rat(478170, 4000)

-----------------------------------------------------------------------------
(* src/stats_helpers.py: summarize_cpm_outlier_safe                        *)

\* the cpms list: one value per zipped (fee, view) pair with view > 0 and
\* a fee; fees holds floats or None, views ints or None
RECURSIVE cpms_of(_, _)
cpms_of(fees, views) ==
    IF fees = <<>> \/ views = <<>> THEN <<>>
    ELSE IF Head(views) = None \/ Head(views)[1] <= 0
    THEN cpms_of(Tail(fees), Tail(views))
    ELSE IF Head(fees) = None THEN cpms_of(Tail(fees), Tail(views))
    ELSE <<RMul(RDiv(Head(fees), Head(views)), Float(1000))>>
             \o cpms_of(Tail(fees), Tail(views))

\* the summary of a cpms list
summary_of_cpms(cpms_sorted, clipped) ==
    [count  |-> Len(cpms_sorted),
     avg    |-> safe_avg(clipped),
     median |-> safe_median(clipped),
     min    |-> cpms_sorted[1],
     max    |-> cpms_sorted[Len(cpms_sorted)]]

summarize_cpms(cpms_sorted) ==
    IF cpms_sorted = <<>> THEN EmptySummary
    ELSE summary_of_cpms(cpms_sorted, clip_outliers(cpms_sorted))

\* the cpms of the pairs whatever their view count: a fee over 0 views
\* counts as a fee over 1 view
RECURSIVE cpms_of_any_views(_, _)
cpms_of_any_views(fees, views) ==
    IF fees = <<>> \/ views = <<>> THEN <<>>
    ELSE IF Head(fees) = None THEN cpms_of_any_views(Tail(fees), Tail(views))
    ELSE IF Head(views) = None \/ Head(views)[1] <= 0
    THEN <<RMul(Head(fees), Float(1000))>>
             \o cpms_of_any_views(Tail(fees), Tail(views))
    ELSE <<RMul(RDiv(Head(fees), Head(views)), Float(1000))>>
             \o cpms_of_any_views(Tail(fees), Tail(views))

\* the summary over every pair that has a fee
summarize_cpm_any_views(fees, views) ==
    summarize_cpms(sorted(cpms_of_any_views(fees, views)))

summarize_cpm_outlier_safe(fees, views) ==
    summarize_cpms(sorted(cpms_of(fees, views)))

-----------------------------------------------------------------------------
(* src/analytics_helpers.py: quarterly niche reports                       *)

\* the report needs this many deals of the quarter
MIN_DEALS_FOR_REPORT == 5

\* the first and the last instant of a quarter
quarter_date_range(year, quarter) ==
    IF quarter = 1
    THEN <<datetime(year, 1, 1, 0, 0, 0, 0), datetime(year, 3, 31, 23, 59, 59, 0)>>
    ELSE IF quarter = 2
    THEN <<datetime(year, 4, 1, 0, 0, 0, 0), datetime(year, 6, 30, 23, 59, 59, 0)>>
    ELSE IF quarter = 3
    THEN <<datetime(year, 7, 1, 0, 0, 0, 0), datetime(year, 9, 30, 23, 59, 59, 0)>>
    ELSE <<datetime(year, 10, 1, 0, 0, 0, 0), datetime(year, 12, 31, 23, 59, 59, 0)>>

\* [row.reported_views or 0 for row in rows]
views_of_rows(rows) ==
    [i \in 1..Len(rows) |-> OrElse(rows[i].reported_views, Float(0))]

\* the summary dict from the fee and cpm summaries
deals_summary(rows, fee_summary, cpm_summary) ==
    [deal_count |-> Len(rows),
     avg_fee    |-> fee_summary.avg,
     median_fee |-> fee_summary.median,
     min_fee    |-> fee_summary.min,
     max_fee    |-> fee_summary.max,
     avg_cpm    |-> cpm_summary.avg,
     median_cpm |-> cpm_summary.median]

\* _summarize_deals
summarize_deals(rows) ==
    deals_summary(rows, summarize_fees_outlier_safe(fees_of(rows)),
                  summarize_cpm_outlier_safe(fees_of(rows), views_of_rows(rows)))

\* the summary of a window below the threshold
raw_summary(rows, fee_values_sorted) ==
    [deal_count |-> Len(rows),
     avg_fee    |-> None,
     median_fee |-> None,
     min_fee    |-> IF fee_values_sorted # <<>> THEN fee_values_sorted[1] ELSE None,
     max_fee    |-> IF fee_values_sorted # <<>>
                    THEN fee_values_sorted[Len(fee_values_sorted)] ELSE None,
     avg_cpm    |-> None,
     median_cpm |-> None]

\* every window summarized whatever its size
window_summary_always(rows) == summarize_deals(rows)

\* the summary of one window of the report
window_summary(rows) ==
    IF Len(rows) >= MIN_DEALS_FOR_REPORT THEN summarize_deals(rows)
    ELSE raw_summary(rows, sorted(fees_of(rows)))

\* the rows a window's statement selects
window_rows(deal_table, niche_code, platform_code, range) ==
    LET Selected(row) ==
            /\ row.share_in_index = TRUE
            /\ row.niche = niche_code
            /\ DateTimeLe(range[1], row.created_at)
            /\ DateTimeLe(row.created_at, range[2])
            /\ (~IsBlank(platform_code) /\ platform_code # "all"
                   => row.platform = platform_code)
    IN  SelectSeq(deal_table, Selected)

\* the previous quarter one year back whatever the quarter
prev_year_quarter_back(year, quarter) ==
    IF quarter - 1 = 0 THEN <<year - 1, 4>> ELSE <<year - 1, quarter - 1>>

\* prev_year and prev_quarter_num
prev_year_quarter(year, quarter) ==
    IF quarter - 1 = 0 THEN <<year - 1, 4>> ELSE <<year, quarter - 1>>

\* prev_quarter: None without rows, else their summary with year and quarter
prev_quarter_of(prev_rows, prev) ==
    IF prev_rows = <<>> THEN None
    ELSE window_summary(prev_rows) @@ [year |-> prev[1], quarter |-> prev[2]]

\* the dict build_quarterly_niche_stats returns for its two windows
quarterly_stats(niche_code, platform_code, year, quarter, rows, prev_quarter) ==
    [niche |-> niche_code,
     platform |-> IF IsBlank(platform_code) THEN "all" ELSE platform_code,
     year |-> year,
     quarter |-> quarter,
     enough_data_for_report |-> Len(rows) >= MIN_DEALS_FOR_REPORT,
     min_deals_for_report |-> MIN_DEALS_FOR_REPORT,
     prev_quarter |-> prev_quarter]
    @@ window_summary(rows)

quarterly_stats_of(deal_table, niche_code, platform_code, year, quarter, prev) ==
    quarterly_stats(
        niche_code, platform_code, year, quarter,
        window_rows(deal_table, niche_code, platform_code,
                    quarter_date_range(year, quarter)),
        prev_quarter_of(window_rows(deal_table, niche_code, platform_code,
                                    quarter_date_range(prev[1], prev[2])),
                        prev))

\* build_quarterly_niche_stats: a ValueError raised before the first query
\* for a quarter outside 1..4
build_quarterly_niche_stats(deal_table, niche_code, platform_code, year, quarter) ==
    IF quarter \notin {1, 2, 3, 4}
    THEN [raised |-> "ValueError: quarter must be between 1 and 4", queries |-> 0]
    ELSE quarterly_stats_of(deal_table, niche_code, platform_code, year, quarter,
                            prev_year_quarter(year, quarter))

-----------------------------------------------------------------------------
(* src/main.py: niche_report                                               *)

\* _current_year_quarter
current_year_quarter(today) == <<today[1], ((today[2] - 1) \div 3) + 1>>

\* int(value or default), the default again on ValueError
int_or_default(value, default) ==
    IF IsBlank(value) \/ IntParse[value] = None THEN default
    ELSE IntParse[value][1]

\* the quarter of the request, replaced by the current one outside 1..4
selected_quarter_of(value, default_quarter) ==
    IF int_or_default(value, default_quarter) \notin {1, 2, 3, 4}
    THEN default_quarter
    ELSE int_or_default(value, default_quarter)

\* the page niche_report renders for the normalized selection
niche_report_page(query, selected_niche, selected_platform, year, quarter) ==
    [handler |-> "niche_report", status |-> 200, query |-> query,
     stats |-> IF selected_niche # ""
               THEN build_quarterly_niche_stats(deals, selected_niche,
                                                selected_platform, year, quarter)
               ELSE None,
     selected_niche |-> selected_niche,
     selected_platform |-> selected_platform,
     selected_year |-> year,
     selected_quarter |-> quarter]

niche_report_of(query, default) ==
    niche_report_page(
        query,
        IF IsBlank(query.niche) THEN "" ELSE normalize_niche(query.niche),
        IF IsBlank(query.platform) \/ query.platform = "all" THEN "all"
        ELSE normalize_platform(query.platform),
        int_or_default(query.year, default[1]),
        selected_quarter_of(query.quarter, default[2]))

\* GET /reports/niche
NicheReport(query) ==
    /\ response' = IF ~plan_allows(user, {"premium"})
                   THEN [handler |-> "niche_report", status |-> 303]
                   ELSE niche_report_of(query, current_year_quarter(now))
    /\ UNCHANGED <<users, inflight, sample, statsCall, rateArgs, rateResult, now, user, profile,
                   deals, negotiations, calculations>>

-----------------------------------------------------------------------------
(* Quarterly reports over deals submitted around the quarter boundaries    *)

\* requests handled in one behaviour of the report specification
MaxReportRequests == 2

\* a shared youtube / finance deal with a fee and reported views
ReportDealForm(fee, views) ==
    [CohortDealForm(fee) EXCEPT !.reported_views = views]

\* five deals with their view counts: one positive, none, zero, two positive
FiveDealForms ==
    <<ReportDealForm("160", "5000"), ReportDealForm("200", ""),
      ReportDealForm("1400", "0"), ReportDealForm("100", "10000"),
      ReportDealForm("50", "20000")>>

\* the table after submitting forms[i] at times[i]
RECURSIVE SubmitAllAt(_, _, _)
SubmitAllAt(table, forms, times) ==
    IF forms = <<>> THEN table
    ELSE SubmitAllAt(Append(table,
                            new_deal_contribution(Len(table) + 1, FreeUser,
                                                  Head(forms), Head(times))),
                     Tail(forms), Tail(times))

LastOf2023 == datetime(2023, 12, 31, 23, 59, 59, 0)

\* within the last second of 2023
AfterLastOf2023 == datetime(2023, 12, 31, 23, 59, 59, 500000)

FirstOf2024 == datetime(2024, 1, 1, 0, 0, 0, 0)

InQ4 == datetime(2023, 11, 20, 9, 30, 0, 0)

InQ1 == datetime(2024, 2, 15, 12, 0, 0, 0)

LastOfQ1 == datetime(2024, 3, 31, 23, 59, 59, 0)

FirstOfQ2 == datetime(2024, 4, 1, 0, 0, 0, 0)

LastOfQ2 == datetime(2024, 6, 30, 23, 59, 59, 0)

FirstOfQ3 == datetime(2024, 7, 1, 0, 0, 0, 0)

LastOfQ3 == datetime(2024, 9, 30, 23, 59, 59, 0)

FirstOfQ4 == datetime(2024, 10, 1, 0, 0, 0, 0)

\* the day the reports are requested
Today == datetime(2024, 11, 20, 8, 0, 0, 0)

Times(n, t) == [i \in 1..n |-> t]

\* the deal tables the reports are asked about
ReportPools ==
    {<<>>,
     SubmitAllAt(<<>>, <<ReportDealForm("160", "5000")>> \o FiveDealForms,
                 <<InQ4>> \o Times(5, InQ1)),
     SubmitAllAt(<<>>, FiveDealForms \o SubSeq(FiveDealForms, 1, 4),
                 Times(5, InQ4) \o Times(4, InQ1)),
     SubmitAllAt(<<>>, FiveDealForms, Times(5, InQ1)),
     SubmitAllAt(<<>>, FiveDealForms,
                 <<LastOf2023, AfterLastOf2023, FirstOf2024, LastOfQ1, FirstOfQ2>>),
     SubmitAllAt(<<>>, SubSeq(FiveDealForms, 1, 4),
                 <<LastOfQ2, FirstOfQ3, LastOfQ3, FirstOfQ4>>)}

ReportDealForms ==
    {ReportDealForm("160", "5000"),
     [ReportDealForm("160", "5000") EXCEPT !.share_in_index = "false"],
     [ReportDealForm("160", "5000") EXCEPT !.platform = "tiktok"]}

ReportQuery(platform, year, quarter) ==
    [niche |-> "Finance", platform |-> platform, year |-> year,
     quarter |-> quarter]

ReportQueries ==
    {ReportQuery(platform, "2024", quarter) :
        platform \in {NoneStr, "YouTube"},
        quarter \in {"1", "2", "0", "5", "abc", NoneStr}}
    \cup {[ReportQuery(NoneStr, NoneStr, "1") EXCEPT !.niche = niche] :
             niche \in {NoneStr, "Finance"}}

\* the arguments of the direct calls of build_quarterly_niche_stats
StatsArgs ==
    [niche_code : {"finance"}, platform_code : {"all", "youtube"},
     year : {2024, 2025}, quarter : 0..5]

InitReport ==
    /\ now = Today
    /\ user \in {[id |-> 1, plan |-> plan] : plan \in {"free", "premium"}}
    /\ profile = None
    /\ deals \in ReportPools
    /\ negotiations = <<>>
    /\ calculations = <<>>
    /\ response = NoResponse
    /\ handled = 0
    /\ users = <<>>
    /\ inflight = {}
    /\ IdleStats
    /\ IdleRate

RequestNicheReport ==
    /\ handled < MaxReportRequests
    /\ handled' = handled + 1
    /\ \E query \in ReportQueries : NicheReport(query)

\* a call of build_quarterly_niche_stats on the current deal table
BuildQuarterlyNicheStats ==
    /\ handled < MaxReportRequests
    /\ handled' = handled + 1
    /\ \E arg \in StatsArgs :
           statsCall' =
               [op     |-> "build_quarterly_niche_stats",
                arg    |-> [session |-> deals, key |-> arg],
                result |-> build_quarterly_niche_stats(
                               deals, arg.niche_code, arg.platform_code,
                               arg.year, arg.quarter)]
    /\ UNCHANGED <<users, inflight, sample, rateArgs, rateResult, now, user, profile, deals,
                   negotiations, calculations, response>>

\* the fee and view lists the calls of summarize_cpm_outlier_safe are given
CpmFeeLists ==
    {<<>>, <<Float(100)>>, <<None>>, <<Float(100), Float(50)>>,
     <<Float(100), None, Float(50)>>, <<None, Float(100), Float(50)>>}

CpmViewLists ==
    {<<>>, <<Float(1000)>>, <<Float(0)>>, <<None>>, <<Float(-5)>>,
     <<Float(1000), Float(2000)>>, <<Float(1000), Float(0), Float(2000)>>,
     <<Float(1000), Float(1000), Float(2000)>>,
     <<None, Float(1000), Float(2000)>>, <<Float(0), None, Float(-5)>>}

\* a call of summarize_cpm_outlier_safe
SummarizeCpm ==
    /\ handled < MaxReportRequests
    /\ handled' = handled + 1
    /\ \E fees \in CpmFeeLists, views \in CpmViewLists :
           statsCall' =
               [op     |-> "summarize_cpm_outlier_safe",
                arg    |-> [fees |-> fees, views |-> views],
                result |-> summarize_cpm_outlier_safe(fees, views)]
    /\ UNCHANGED <<users, inflight, sample, rateArgs, rateResult, now, user, profile, deals,
                   negotiations, calculations, response>>

SubmitReportDeal ==
    /\ handled < MaxReportRequests
    /\ handled' = handled + 1
    /\ \E form \in ReportDealForms : DealNewSubmit(form)

NextReport ==
    \/ RequestNicheReport
    \/ BuildQuarterlyNicheStats
    \/ SummarizeCpm
    \/ SubmitReportDeal

SpecReport == InitReport /\ [][NextReport]_vars

-----------------------------------------------------------------------------
(* Claims about the quarterly niche report                                 *)

StatsBuilt == statsCall.op = "build_quarterly_niche_stats"

ReportRendered ==
    /\ response # NoResponse
    /\ response.handler = "niche_report"
    /\ response.status = 200

\* the request names a whole number as its quarter, and it is not 1..4
QuarterOutOfRange(query) ==
    /\ ~IsBlank(query.quarter)
    /\ IntParse[query.quarter] # None
    /\ IntParse[query.quarter][1] \notin 1..4

\* the call failed with the descriptive error before any query was issued
RaisedBeforeQuery(result) ==
    /\ "raised" \in DOMAIN result
    /\ result.raised = "ValueError: quarter must be between 1 and 4"
    /\ result.queries = 0

\* C13: a quarterly report request whose quarter is outside 1..4 is rejected
\* with a descriptive failure and never replaced by another quarter:
\* build_quarterly_niche_stats raises before any record query, and the report
\* entry point renders no report for a quarter other than the invalid one.
C13_InvalidQuarterRejected ==
    /\ StatsBuilt /\ statsCall.arg.key.quarter \notin 1..4
           => RaisedBeforeQuery(statsCall.result)
    /\ ReportRendered /\ QuarterOutOfRange(response.query)
           => response.selected_quarter = IntParse[response.query.quarter][1]

\* the report of the current quarter, the fourth, rendered for a request
\* naming quarter 5
C13_Witness ==
    /\ ReportRendered
    /\ response.query.quarter = "5"
    /\ response.selected_quarter = 4
    /\ response.stats # None
    /\ response.stats.quarter = 4

\* the least and the greatest of the fees of a window, None without fees
SeqRange(values) == {values[i] : i \in 1..Len(values)}

RawMin(fees) ==
    IF fees = <<>> THEN None
    ELSE CHOOSE x \in SeqRange(fees) : \A y \in SeqRange(fees) : RLe(x, y)

RawMax(fees) ==
    IF fees = <<>> THEN None
    ELSE CHOOSE x \in SeqRange(fees) : \A y \in SeqRange(fees) : RLe(y, x)

\* what the claim says a window's entry s holds for the window's fees and views
SummaryAsClaimed(s, count, fees, views) ==
    /\ s.deal_count = count
    /\ IF count >= 5
       THEN /\ s.avg_fee = summarize_fees_outlier_safe(fees).avg
            /\ s.median_fee = summarize_fees_outlier_safe(fees).median
            /\ s.avg_cpm = summarize_cpm_outlier_safe(fees, views).avg
            /\ s.median_cpm = summarize_cpm_outlier_safe(fees, views).median
       ELSE /\ s.avg_fee = None /\ s.median_fee = None
            /\ s.avg_cpm = None /\ s.median_cpm = None
            /\ s.min_fee = RawMin(fees)
            /\ s.max_fee = RawMax(fees)

WindowAsClaimed(s, rows) ==
    SummaryAsClaimed(s, Len(rows), fees_of(rows), views_of_rows(rows))

\* the rows of the current and of the previous window of a direct call
CurrentRows ==
    window_rows(statsCall.arg.session, statsCall.arg.key.niche_code,
                statsCall.arg.key.platform_code,
                quarter_date_range(statsCall.arg.key.year,
                                   statsCall.arg.key.quarter))

PreviousRows ==
    window_rows(statsCall.arg.session, statsCall.arg.key.niche_code,
                statsCall.arg.key.platform_code,
                quarter_date_range(
                    prev_year_quarter(statsCall.arg.key.year,
                                      statsCall.arg.key.quarter)[1],
                    prev_year_quarter(statsCall.arg.key.year,
                                      statsCall.arg.key.quarter)[2]))

StatsReturned == StatsBuilt /\ statsCall.arg.key.quarter \in 1..4

CurrentAsClaimed(cur_rows) ==
    /\ WindowAsClaimed(statsCall.result, cur_rows)
    /\ statsCall.result.enough_data_for_report = (Len(cur_rows) >= 5)

\* C14 as stated: each window yields the outlier-safe summaries from 5 records
\* on and null averages and medians with the count and the raw min/max below
\* 5; enough_data_for_report is true exactly when the current window has at
\* least 5, and the previous window is reported regardless of its own count.
C14_Original ==
    StatsReturned =>
        /\ CurrentAsClaimed(CurrentRows)
        /\ statsCall.result.prev_quarter # None
        /\ WindowAsClaimed(statsCall.result.prev_quarter, PreviousRows)

PreviousAsAmended(prev_rows) ==
    IF prev_rows = <<>> THEN statsCall.result.prev_quarter = None
    ELSE /\ statsCall.result.prev_quarter # None
         /\ WindowAsClaimed(statsCall.result.prev_quarter, prev_rows)

\* C14 (amended): as stated for the current window and for a previous window
\* holding at least one record; a previous window without records is not
\* reported at all (prev_quarter is null).
C14_WindowSummaries ==
    StatsReturned =>
        /\ CurrentAsClaimed(CurrentRows)
        /\ PreviousAsAmended(PreviousRows)

\* a current window of 4 records reported by its raw min and max next to a
\* previous window of 5 with its summaries
C14_Witness ==
    /\ StatsReturned
    /\ statsCall.result.deal_count = 4
    /\ statsCall.result.avg_fee = None
    /\ statsCall.result.min_fee = Float(100)
    /\ statsCall.result.max_fee = Float(1400)
    /\ ~statsCall.result.enough_data_for_report
    /\ statsCall.result.prev_quarter # None
    /\ statsCall.result.prev_quarter.deal_count = 5
    /\ statsCall.result.prev_quarter.avg_cpm # None

\* the instant t lies in quarter q of year Y: from the first day of the
\* quarter at 00:00:00 to its last day at 23:59:59
InQuarter(t, Y, q) ==
    /\ DateTimeLe(datetime(Y, 3 * (q - 1) + 1, 1, 0, 0, 0, 0), t)
    /\ DateTimeLe(t, datetime(Y, 3 * q, IF q \in {1, 4} THEN 31 ELSE 30,
                              23, 59, 59, 0))

\* the records of the call's cohort created in quarter q of year Y
CountInQuarter(Y, q) ==
    Cardinality({i \in 1..Len(statsCall.arg.session) :
        /\ statsCall.arg.session[i].share_in_index
        /\ statsCall.arg.session[i].niche = statsCall.arg.key.niche_code
        /\ (statsCall.arg.key.platform_code # "all"
               => statsCall.arg.session[i].platform
                      = statsCall.arg.key.platform_code)
        /\ InQuarter(statsCall.arg.session[i].created_at, Y, q)})

PreviousInQuarter(Y, q) ==
    IF statsCall.result.prev_quarter = None THEN CountInQuarter(Y, q) = 0
    ELSE /\ statsCall.result.prev_quarter.year = Y
         /\ statsCall.result.prev_quarter.quarter = q
         /\ statsCall.result.prev_quarter.deal_count = CountInQuarter(Y, q)

\* C15: for every year Y and quarter q in 1..4 the previous window is quarter
\* q-1 of year Y when q > 1 and quarter 4 of year Y-1 when q = 1, and each
\* window runs from the first day of its quarter at 00:00:00 to its last day
\* at 23:59:59 inclusive.
C15_PreviousQuarterWindows ==
    StatsReturned =>
        /\ statsCall.result.deal_count
               = CountInQuarter(statsCall.arg.key.year, statsCall.arg.key.quarter)
        /\ IF statsCall.arg.key.quarter > 1
           THEN PreviousInQuarter(statsCall.arg.key.year,
                                  statsCall.arg.key.quarter - 1)
           ELSE PreviousInQuarter(statsCall.arg.key.year - 1, 4)

\* the first quarter of 2024 over a table with records at both ends of the
\* quarter and of the last quarter of 2023
C15_Witness ==
    /\ StatsReturned
    /\ statsCall.arg.key.year = 2024 /\ statsCall.arg.key.quarter = 1
    /\ \E i \in 1..Len(statsCall.arg.session) :
           statsCall.arg.session[i].created_at = LastOfQ1
    /\ \E i \in 1..Len(statsCall.arg.session) :
           statsCall.arg.session[i].created_at = FirstOf2024
    /\ statsCall.result.deal_count = 2
    /\ statsCall.result.prev_quarter # None
    /\ statsCall.result.prev_quarter.year = 2023
    /\ statsCall.result.prev_quarter.quarter = 4
    /\ statsCall.result.prev_quarter.deal_count = 1

CpmSummarized == statsCall.op = "summarize_cpm_outlier_safe"

\* the pair contributes: its view count is positive and its fee is present
Contributes(fee, view) == view # None /\ view[1] > 0 /\ fee # None

\* the positions of the zipped pairs that contribute
ContributingPairs(fees, views) ==
    {i \in 1..Len(fees) : i <= Len(views) /\ Contributes(fees[i], views[i])}

\* the k-th smallest member of a set of positions
RECURSIVE KthOf(_, _)
KthOf(positions, k) ==
    LET least == CHOOSE i \in positions : \A j \in positions : i <= j
    IN  IF k = 1 THEN least ELSE KthOf(positions \ {least}, k - 1)

\* fee / viewCount * 1000 of each contributing pair, in the order of the pairs
ClaimedCpms(fees, views, positions) ==
    [k \in 1..Cardinality(positions) |->
        RMul(RDiv(fees[KthOf(positions, k)], views[KthOf(positions, k)]),
             Float(1000))]

CpmSummaryAsClaimed(result, fees, views) ==
    result = summarize_cpms(
                 sorted(ClaimedCpms(fees, views, ContributingPairs(fees, views))))

\* the average and the median CPM of a window come from the fee and the
\* reported views of each of its records
WindowCpmOfOwnRecords(s, rows) ==
    Len(rows) >= 5 =>
        /\ s.avg_cpm = summarize_cpms(sorted(ClaimedCpms(
               [i \in 1..Len(rows) |-> rows[i].total_fee_usd],
               [i \in 1..Len(rows) |-> rows[i].reported_views],
               {i \in 1..Len(rows) :
                   Contributes(rows[i].total_fee_usd, rows[i].reported_views)}))).avg
        /\ s.median_cpm = summarize_cpms(sorted(ClaimedCpms(
               [i \in 1..Len(rows) |-> rows[i].total_fee_usd],
               [i \in 1..Len(rows) |-> rows[i].reported_views],
               {i \in 1..Len(rows) :
                   Contributes(rows[i].total_fee_usd, rows[i].reported_views)}))).median

\* C16: in the CPM summary a (fee, viewCount) pair contributes fee/viewCount*1000
\* exactly when viewCount > 0 and the fee is present, and is otherwise skipped
\* without error or effect on the other pairs; in the quarterly summary every
\* contributing CPM value comes from the fee and the reported views of one and
\* the same deal record.
C16_CpmPairs ==
    /\ CpmSummarized =>
           CpmSummaryAsClaimed(statsCall.result, statsCall.arg.fees,
                               statsCall.arg.views)
    /\ StatsReturned => WindowCpmOfOwnRecords(statsCall.result, CurrentRows)
    /\ StatsReturned /\ statsCall.result.prev_quarter # None =>
           WindowCpmOfOwnRecords(statsCall.result.prev_quarter, PreviousRows)

\* three pairs of which the second has no fee: the CPM values 100 and 25
C16_Witness ==
    /\ CpmSummarized
    /\ statsCall.arg.fees = <<Float(100), None, Float(50)>>
    /\ statsCall.arg.views = <<Float(1000), Float(1000), Float(2000)>>
    /\ statsCall.result.count = 2
    /\ statsCall.result.min = Float(25)
    /\ statsCall.result.max = Float(100)

-----------------------------------------------------------------------------
(* Claims about deals and their negotiations (checked under SpecNeg).      *)

\* the deals of a table linked to the negotiation with this id
DealsLinkedTo(deal_table, negotiation_id) ==
    {d \in 1..Len(deal_table) :
        deal_table[d].negotiation_session_id = Float(negotiation_id)}

\* a step links no second deal to a linked negotiation and keeps its fee
LinkedOnce ==
    \A k \in 1..Len(negotiations) :
        DealsLinkedTo(deals, negotiations[k].id) # {} =>
            /\ DealsLinkedTo(deals', negotiations[k].id)
                   = DealsLinkedTo(deals, negotiations[k].id)
            /\ negotiations'[k].final_agreed_fee_usd
                   = negotiations[k].final_agreed_fee_usd

\* C17: a negotiation is linked to at most one deal over any sequence of deal
\* submissions: once a deal has been linked to it, no later submission links
\* a second deal to it or changes its final agreed fee.
C17_LinkedToAtMostOneDeal == [][LinkedOnce]_vars

\* two deals linked to the first negotiation, whose final agreed fee is the
\* fee of the second
C17_Witness ==
    /\ Len(negotiations) >= 1
    /\ DealsLinkedTo(deals, negotiations[1].id) = {1, 2}
    /\ deals[1].total_fee_usd = Float(160)
    /\ deals[2].total_fee_usd = Float(200)
    /\ negotiations[1].final_agreed_fee_usd = Float(200)

-----------------------------------------------------------------------------
(* Deal submissions with every kind of fee and follower count              *)

\* missing, blank, unparsable, zero, negative and positive fees
DealRecordFees == {NoneStr, "", "abc", "0", "-3", "160"}

\* follower counts at both sides of every tier boundary, and none
DealRecordFollowers ==
    {NoneStr, "abc", "-3", "0", "4999", "5000", "9999", "10000", "24999",
     "25000", "49999", "50000", "99999", "100000"}

DealRecordForms ==
    {[CohortDealForm(fee) EXCEPT !.negotiation_session_id = id] :
        fee \in DealRecordFees, id \in {NoneStr, "1"}}
    \cup {[CohortDealForm("160") EXCEPT !.follower_count = followers] :
             followers \in DealRecordFollowers}

InitDeals ==
    /\ now = Epoch
    /\ user = [id |-> 1, plan |-> "premium"]
    /\ profile \in CreatorProfiles
    /\ deals = <<>>
    /\ negotiations = <<>>
    /\ calculations = <<>>
    /\ response = NoResponse
    /\ handled = 0
    /\ users = <<>>
    /\ inflight = {}
    /\ IdleStats
    /\ IdleRate

SubmitDealRecord ==
    /\ handled < MaxRequests
    /\ handled' = handled + 1
    /\ \E form \in DealRecordForms : DealNewSubmit(form)

OpenNegotiation ==
    /\ handled < MaxRequests
    /\ handled' = handled + 1
    /\ NegotiationSubmit(NegotiationForm("50000", "4", "100"))

NextDeals == SubmitDealRecord \/ OpenNegotiation

SpecDeals == InitDeals /\ [][NextDeals]_vars

\* the record has a fee that is not negative and the tier of its own
\* follower count
DealRecordValid(row) ==
    /\ row.total_fee_usd # None
    /\ RLe(Float(0), row.total_fee_usd)
    /\ row.follower_tier = bucket_follower_count(row.follower_count)

DealRejected ==
    /\ response' # NoResponse
    /\ response'.handler = "deal_new"
    /\ response'.status = 400

\* a step of deal_new_submit stores one record for a positive fee and none,
\* with the rejection, for a missing or non-positive one
DealStoredOrRejected ==
    /\ \A d \in 1..Len(deals') : DealRecordValid(deals'[d])
    /\ DealRejected => deals' = deals /\ negotiations' = negotiations
    /\ deals' # deals =>
           /\ Len(deals') = Len(deals) + 1
           /\ RLt(Float(0), deals'[Len(deals')].total_fee_usd)
           /\ response'.status = 303
    /\ response' # response /\ response'.handler = "deal_new" =>
           (DealRejected <=> deals' = deals)

\* C18: every stored deal record, after any sequence of deal submissions and
\* negotiation links, has a non-negative total fee and a follower tier equal
\* to bucket_follower_count of its own follower count; a submission with a
\* missing or non-positive total fee is rejected and stores no record.
C18_DealRecords == [][DealStoredOrRejected]_vars

\* a deal of 5000 followers stored after a deal of 4999, each with its tier,
\* and then a submission with fee 0 rejected
C18_Witness ==
    /\ Len(deals) = 2
    /\ response # NoResponse
    /\ response.handler = "deal_new"
    /\ response.status = 400
    /\ to_float(response.form_data.total_fee_usd) = Float(0)
    /\ deals[1].follower_count = Float(4999)
    /\ deals[1].follower_tier = "under_5k"
    /\ deals[2].follower_count = Float(5000)
    /\ deals[2].follower_tier = "5k_10k"

-----------------------------------------------------------------------------
(* src/ai.py: build_creator_stats and generate_creator_insights           *)

\* the rows of a table that belong to the user
rows_of_user(table, user_id) ==
    LET Own(row) == row.user_id = user_id
    IN  SelectSeq(table, Own)

\* the fees of the rows whose column `key` holds the value bucket, a missing
\* fee counting as 0
bucket_fees(rows, key, bucket) ==
    LET InBucket(row) == row[key] = bucket
    IN  [i \in 1..Len(SelectSeq(rows, InBucket)) |->
            OrElse(SelectSeq(rows, InBucket)[i].total_fee_usd, Float(0))]

bucket_summary(fees_sorted) ==
    [count      |-> Len(fees_sorted),
     avg_fee    |-> safe_avg(fees_sorted),
     median_fee |-> safe_median(fees_sorted)]

\* _fees_by_key: one summary per value of the column, rows without a value
\* left out
fees_by_key(rows, key) ==
    [bucket \in {rows[i][key] : i \in {j \in 1..Len(rows) : ~IsBlank(rows[j][key])}}
        |-> bucket_summary(sorted(bucket_fees(rows, key, bucket)))]

\* the cpms of the deals with views > 0 and a non-zero fee
creator_cpms(own_deals) ==
    LET Counted(row) ==
            /\ row.reported_views # None
            /\ row.reported_views[1] > 0
            /\ row.total_fee_usd # None
            /\ row.total_fee_usd[1] # 0
    IN  [i \in 1..Len(SelectSeq(own_deals, Counted)) |->
            RMul(RDiv(SelectSeq(own_deals, Counted)[i].total_fee_usd,
                      SelectSeq(own_deals, Counted)[i].reported_views),
                 Float(1000))]

deal_summary_of(own_deals) ==
    [total_deals        |-> Len(own_deals),
     count              |-> Len(own_deals),
     avg_fee            |-> safe_avg(sorted(fees_of(own_deals))),
     median_fee         |-> safe_median(sorted(fees_of(own_deals))),
     avg_cpm            |-> safe_avg(creator_cpms(own_deals)),
     platform_breakdown |-> fees_by_key(own_deals, "platform"),
     niche_breakdown    |-> fees_by_key(own_deals, "niche")]

\* the offer_vs_market_pct values that are present
offer_diffs(own_negotiations) ==
    LET Present(row) == row.offer_vs_market_pct # None
    IN  [i \in 1..Len(SelectSeq(own_negotiations, Present)) |->
            SelectSeq(own_negotiations, Present)[i].offer_vs_market_pct]

negotiation_summary_of(own_negotiations) ==
    [total_negotiations      |-> Len(own_negotiations),
     count                   |-> Len(own_negotiations),
     avg_offer_vs_market_pct |-> safe_avg(offer_diffs(own_negotiations)),
     counter_above_offer_count |->
         Cardinality({i \in 1..Len(own_negotiations) :
             /\ own_negotiations[i].recommended_counter_min # None
             /\ own_negotiations[i].brand_offer # None
             /\ RLt(own_negotiations[i].brand_offer,
                    own_negotiations[i].recommended_counter_min)})]

\* the (platform, niche) key of a calculation
calc_key(calc) == <<calc.platform, calc.niche>>

\* the calculations of a key
calc_range(own_calculations, key) ==
    LET OfKey(calc) == calc_key(calc) = key
    IN  SelectSeq(own_calculations, OfKey)

\* main_calc_key: the key with the most calculations, the one seen first
\* among equals
main_calc_key(own_calculations) ==
    calc_key(own_calculations[
        CHOOSE i \in 1..Len(own_calculations) :
            /\ \A j \in 1..Len(own_calculations) :
                   Len(calc_range(own_calculations, calc_key(own_calculations[j])))
                       <= Len(calc_range(own_calculations,
                                         calc_key(own_calculations[i])))
            /\ \A j \in 1..(i - 1) :
                   Len(calc_range(own_calculations, calc_key(own_calculations[j])))
                       < Len(calc_range(own_calculations,
                                        calc_key(own_calculations[i])))])

typical_range_of(key, ranges) ==
    [platform |-> key[1],
     niche    |-> key[2],
     avg_min  |-> safe_avg([i \in 1..Len(ranges) |-> ranges[i].recommended_min]),
     avg_max  |-> safe_avg([i \in 1..Len(ranges) |-> ranges[i].recommended_max])]

calculator_summary_of(own_calculations) ==
    [total_calculations |-> Len(own_calculations),
     count              |-> Len(own_calculations),
     typical_range      |->
         IF own_calculations = <<>> THEN None
         ELSE typical_range_of(
                  main_calc_key(own_calculations),
                  calc_range(own_calculations, main_calc_key(own_calculations)))]

profile_summary_of(profile_row) ==
    IF profile_row = None THEN None
    ELSE [display_name     |-> profile_row.display_name,
          primary_platform |-> profile_row.primary_platform,
          niche            |-> profile_row.niche,
          followers        |-> profile_row.followers,
          avg_views        |-> profile_row.avg_views,
          engagement_rate  |-> profile_row.engagement_rate]

data_richness_of(own_deals, own_negotiations, own_calculations) ==
    [has_any_deals        |-> Len(own_deals) > 0,
     has_any_negotiations |-> Len(own_negotiations) > 0,
     has_any_calculations |-> Len(own_calculations) > 0,
     total_signals        |-> Len(own_deals) + Len(own_negotiations)
                                  + Len(own_calculations)]

creator_stats(profile_row, own_deals, own_negotiations, own_calculations) ==
    [profile             |-> profile_summary_of(profile_row),
     deal_summary        |-> deal_summary_of(own_deals),
     negotiation_summary |-> negotiation_summary_of(own_negotiations),
     calculator_summary  |-> calculator_summary_of(own_calculations),
     data_richness       |-> data_richness_of(own_deals, own_negotiations,
                                              own_calculations)]

build_creator_stats(profile_row, deal_table, neg_table, calc_table, user_id) ==
    creator_stats(profile_row, rows_of_user(deal_table, user_id),
                  rows_of_user(neg_table, user_id),
                  rows_of_user(calc_table, user_id))

\* the signals generate_creator_insights asks for before it calls the narrator
MIN_TOTAL_SIGNALS == 3

\* str.strip() of the texts the narrator returns
Strip == " Raise your rates. " :> "Raise your rates." @@ "" :> ""

\* what client.responses.create can do: answer with a text, answer without
\* one, or raise
NarratorOutcomes ==
    {[output_text |-> " Raise your rates. "], [output_text |-> ""],
     [output_text |-> NoneStr], [raised |-> "APIConnectionError"]}

input_payload_of(stats, preview) ==
    [profile             |-> stats.profile,
     deal_summary        |-> stats.deal_summary,
     negotiation_summary |-> stats.negotiation_summary,
     calculator_summary  |-> stats.calculator_summary,
     data_richness       |-> stats.data_richness,
     preview             |-> preview]

\* the narrator asked whatever the signals
needs_more_data_never(stats) == FALSE

\* total_signals < 3
needs_more_data(stats) == stats.data_richness.total_signals < MIN_TOTAL_SIGNALS

NoDataResult ==
    [status |-> "no_data", message |-> "We need at least a few logged deals",
     insights_text |-> None]

ErrorResult ==
    [status |-> "error", message |-> "We couldn't reach the AI insights service",
     insights_text |-> None]

\* the result for the outcome of the narrator call: an exception of the call,
\* or of .strip() on a missing text, is caught
insights_result_of(outcome) ==
    IF "raised" \in DOMAIN outcome \/ outcome.output_text = NoneStr
    THEN ErrorResult
    ELSE [status |-> "ok", message |-> "",
          insights_text |-> Strip[outcome.output_text]]

\* generate_creator_insights, the narrator's outcome given
generate_creator_insights(stats, outcome) ==
    IF needs_more_data(stats) THEN NoDataResult ELSE insights_result_of(outcome)

\* the narrator call generate_creator_insights makes
narrator_call(stats, preview, outcome) ==
    [op     |-> "client.responses.create",
     arg    |-> input_payload_of(stats, preview),
     result |-> outcome]

insights_page(stats, insights_result) ==
    [handler |-> "insights", status |-> 200, stats |-> stats,
     insights_result |-> insights_result]

insights_of(stats, preview, outcome) ==
    /\ response' = insights_page(stats, generate_creator_insights(stats, outcome))
    /\ statsCall' = IF needs_more_data(stats) THEN statsCall
                    ELSE narrator_call(stats, preview, outcome)

\* GET /insights
Insights(outcome) ==
    /\ insights_of(build_creator_stats(profile, deals, negotiations,
                                       calculations, user.id),
                   Lower[user.plan] = "free", outcome)
    /\ UNCHANGED <<users, inflight, sample, rateArgs, rateResult, now, user, profile, deals,
                   negotiations, calculations>>

-----------------------------------------------------------------------------
(* Insights over the deals, negotiations and calculations of two users      *)

OtherUser == [id |-> 2, plan |-> "premium"]

InsightsProfiles ==
    {None,
     [display_name |-> "Ada", followers |-> Float(50000), avg_views |-> None,
      engagement_rate |-> Float(4), niche |-> "finance",
      audience_location |-> "us", primary_platform |-> "youtube"]}

RECURSIVE SubmitAllBy(_, _, _)
SubmitAllBy(table, forms, owners) ==
    IF forms = <<>> THEN table
    ELSE SubmitAllBy(Append(table,
                            new_deal_contribution(Len(table) + 1, Head(owners),
                                                  Head(forms), Epoch)),
                     Tail(forms), Tail(owners))

\* deal tables holding none, two or three deals of the user and deals of
\* another user
InsightsPools ==
    {SubmitAllBy(<<>>, SubSeq(FiveDealForms, 1, Len(owners)), owners) :
        owners \in {<<>>, <<FreeUser, FreeUser>>,
                   <<OtherUser, OtherUser, OtherUser>>,
                   <<FreeUser, OtherUser, FreeUser>>,
                   <<FreeUser, FreeUser, FreeUser>>}}

InitInsights ==
    /\ now = Epoch
    /\ user \in {[id |-> 1, plan |-> plan] : plan \in {"free", "premium"}}
    /\ profile \in InsightsProfiles
    /\ deals \in InsightsPools
    /\ negotiations = <<>>
    /\ calculations = <<>>
    /\ response = NoResponse
    /\ handled = 0
    /\ users = <<>>
    /\ inflight = {}
    /\ IdleStats
    /\ IdleRate

RequestInsights ==
    /\ handled < MaxRequests
    /\ handled' = handled + 1
    /\ \E outcome \in NarratorOutcomes : Insights(outcome)

LogDeal ==
    /\ handled < MaxRequests
    /\ handled' = handled + 1
    /\ \E form \in {ReportDealForm("160", "5000"), ReportDealForm("200", "")} :
           DealNewSubmit(form)

LogNegotiation ==
    /\ handled < MaxRequests
    /\ handled' = handled + 1
    /\ \E form \in {NegotiationForm("50000", "4", "100"),
                    NegotiationForm("", "", "100")} : NegotiationSubmit(form)

LogCalculation ==
    /\ handled < MaxRequests
    /\ handled' = handled + 1
    /\ \E form \in {CalcForm("50000", "", "us"), CalcForm("", "", "us")} :
           CalculatorSubmit(form)

NextInsights == RequestInsights \/ LogDeal \/ LogNegotiation \/ LogCalculation

SpecInsights == InitInsights /\ [][NextInsights]_vars

-----------------------------------------------------------------------------
(* Claims about the insights page (checked under SpecInsights).            *)

\* the user's deals, negotiations and calculations, counted
OwnRows(table) == Cardinality({i \in 1..Len(table) : table[i].user_id = user.id})

TotalSignals == OwnRows(deals) + OwnRows(negotiations) + OwnRows(calculations)

NarratorCalled == statsCall.op = "client.responses.create"

\* this step is a request of the insights page
InsightsRequested ==
    /\ handled' = handled + 1
    /\ response'.handler = "insights"
    /\ UNCHANGED <<deals, negotiations, calculations>>

\* what the claim says of a request of the insights page
InsightsAsClaimed ==
    /\ response'.status = 200
    /\ response'.stats = build_creator_stats(profile, deals, negotiations,
                                             calculations, user.id)
    /\ response'.stats.data_richness.total_signals = TotalSignals
    /\ IF TotalSignals < 3
       THEN /\ response'.insights_result.status = "no_data"
            /\ statsCall' = statsCall
       ELSE /\ NarratorCalled'
            /\ statsCall'.arg.data_richness.total_signals = TotalSignals
            /\ response'.insights_result.status \in {"ok", "error"}
            /\ "raised" \in DOMAIN statsCall'.result
                   => response'.insights_result.status = "error"
            /\ response'.insights_result.status = "ok"
                   => "output_text" \in DOMAIN statsCall'.result

\* C19: generate_creator_insights calls the narrator only when the user's
\* total signals (deals + negotiations + calculations) are at least 3; below
\* 3 it returns "no_data" without calling it; when the narrator call fails it
\* returns "error" instead of raising, and the numeric stats are the same
\* whether narration succeeds or fails.
C19_NarrationGate ==
    /\ [](NarratorCalled => TotalSignals >= 3)
    /\ [][InsightsRequested => InsightsAsClaimed]_vars

\* the narrator failed for a user with two deals and a calculation, next to
\* another user's deal: the page shows "error" and the stats of the user
C19_Witness ==
    /\ response.handler = "insights"
    /\ response.insights_result.status = "error"
    /\ NarratorCalled
    /\ "raised" \in DOMAIN statsCall.result
    /\ Len(deals) = 3
    /\ response.stats.deal_summary.count = 2
    /\ response.stats.calculator_summary.count = 1
    /\ response.stats.data_richness.total_signals = 3
    /\ response.stats.deal_summary.avg_fee # None

-----------------------------------------------------------------------------
(* Claim about the niche multiplier (checked under SpecRate).              *)

\* the keywords in their declared order, and their multipliers
DeclaredKeywords ==
    <<"finance", "investing", "business", "beauty", "fashion", "tech",
      "gaming", "fitness", "health">>

DeclaredMultiplier ==
    "finance" :> Rat(14, 10) @@ "investing" :> Rat(14, 10)
    @@ "business" :> Rat(14, 10) @@ "beauty" :> Rat(12, 10)
    @@ "fashion" :> Rat(12, 10) @@ "tech" :> Rat(13, 10)
    @@ "gaming" :> Rat(13, 10) @@ "fitness" :> Rat(115, 100)
    @@ "health" :> Rat(115, 100)

\* the positions of the keywords that occur in the niche code
MatchingKeywords(niche_code) ==
    {k \in 1..Len(DeclaredKeywords) : IsSubstring(DeclaredKeywords[k], niche_code)}

FirstMatchMultiplier(niche_code) ==
    IF MatchingKeywords(niche_code) = {} THEN Float(1)
    ELSE DeclaredMultiplier[DeclaredKeywords[
             CHOOSE k \in MatchingKeywords(niche_code) :
                 \A j \in MatchingKeywords(niche_code) : k <= j]]

\* C20: the niche multiplier calculate_rate returns is the multiplier of the
\* first entry, in the declared order finance, investing, business (1.4),
\* beauty, fashion (1.2), tech, gaming (1.3), fitness, health (1.15), whose
\* keyword is a substring of the normalized niche code, and 1.0 when no
\* keyword matches.
C20_FirstMatchingNiche ==
    RateCalled =>
        rateResult.niche_multiplier
            = FirstMatchMultiplier(normalize_niche(rateArgs.niche))

\* a rate for the finance niche, the first entry of the table
C20_Witness ==
    /\ RateCalled
    /\ normalize_niche(rateArgs.niche) = "finance"
    /\ MatchingKeywords("finance") = {1}
    /\ rateResult.niche_multiplier = Rat(14, 10)

-----------------------------------------------------------------------------
(* Claim about the engagement multiplier (checked under SpecRate).         *)

\* the band of an engagement rate, as the claim lists them
EngagementBand(rate) ==
    CASE rate = None -> Float(1)
      [] rate # None /\ RLt(rate, Float(1)) -> Rat(8, 10)
      [] rate # None /\ RLe(Float(1), rate) /\ RLt(rate, Float(3)) -> Float(1)
      [] rate # None /\ RLe(Float(3), rate) /\ RLt(rate, Float(5)) -> Rat(115, 100)
      [] rate # None /\ RLe(Float(5), rate) -> Rat(13, 10)

\* C21: the engagement multiplier is 0.8 for a rate below 1, 1.0 for a rate
\* in [1,3), 1.15 for a rate in [3,5), 1.3 for a rate of 5 or more, and 1.0
\* when the engagement rate is absent.
C21_EngagementBands ==
    RateCalled =>
        rateResult.engagement_multiplier = EngagementBand(rateArgs.engagement_rate)

\* a rate of exactly 3, the lower end of the 1.15 band
C21_Witness ==
    /\ RateCalled
    /\ rateArgs.engagement_rate = Float(3)
    /\ rateResult.engagement_multiplier = Rat(115, 100)

-----------------------------------------------------------------------------
(* Fee and CPM summaries of one drawn sample                               *)

\* summarize_cpm_outlier_safe(sample, views) for the sample as the fees and
\* one view count, present or not, for every fee
SummarizeCpmOfSample ==
    /\ statsCall.op = "none"
    /\ \E view \in {None, Float(0), Float(-5), Float(1000)} :
           statsCall' =
               [op     |-> "summarize_cpm_outlier_safe",
                arg    |-> [fees |-> sample,
                            views |-> [i \in 1..Len(sample) |-> view]],
                result |-> summarize_cpm_outlier_safe(
                               sample, [i \in 1..Len(sample) |-> view])]
    /\ UNCHANGED <<users, inflight, sample, rateArgs, rateResult, now, user, profile, deals,
                   negotiations, calculations, response, handled>>

NextSummaries == SummarizeFees \/ SummarizeCpmOfSample

SpecSummaries == InitStats /\ [][NextSummaries]_vars

\* count 0 and nothing else
NoSignalSummary(result) ==
    /\ result.count = 0
    /\ result.avg = None
    /\ result.median = None
    /\ result.min = None
    /\ result.max = None

\* C22: an empty sample is summarized as count 0 with avg, median, min and
\* max all absent (None), never as zeros, both for the fee summary and for a
\* CPM summary in which no pair passes the filter.
C22_EmptySummaries ==
    /\ Summarized /\ statsCall.arg = <<>> => NoSignalSummary(statsCall.result)
    /\ CpmSummarized
           /\ ContributingPairs(statsCall.arg.fees, statsCall.arg.views) = {}
           => NoSignalSummary(statsCall.result)

\* the CPM summary of two fees whose view counts are 0
C22_Witness ==
    /\ CpmSummarized
    /\ Len(statsCall.arg.fees) = 2
    /\ statsCall.arg.views = <<Float(0), Float(0)>>
    /\ NoSignalSummary(statsCall.result)

-----------------------------------------------------------------------------
(* src/analytics_helpers.py: build_user_analytics (the deal and the        *)
(* negotiation summaries and the flags; the breakdowns and the monthly     *)
(* trend are left out)                                                     *)

\* quoted_rows: a quoted fee > 0 and a closed fee
quoted_rows_of(own_deals) ==
    LET Quoted(d) ==
            /\ d.quoted_fee_usd # None
            /\ d.quoted_fee_usd[1] > 0
            /\ d.total_fee_usd # None
    IN  SelectSeq(own_deals, Quoted)

\* ((total - quoted) / quoted) * 100 of every quoted row
close_vs_quote_of(quoted_rows) ==
    [i \in 1..Len(quoted_rows) |->
        RMul(RDiv(RSub(quoted_rows[i].total_fee_usd, quoted_rows[i].quoted_fee_usd),
                  quoted_rows[i].quoted_fee_usd),
             Float(100))]

\* negotiations_by_id.get(deal.negotiation_session_id)
negotiation_by_id(own_negotiations, id) ==
    IF \A k \in 1..Len(own_negotiations) : own_negotiations[k].id # id THEN None
    ELSE own_negotiations[CHOOSE k \in 1..Len(own_negotiations) :
                              own_negotiations[k].id = id]

\* the negotiation whose final fee and offer give a deal's uplift, if any
uplift_negotiation(own_negotiations, deal) ==
    IF deal.negotiation_session_id = None \/ deal.negotiation_session_id[1] = 0
    THEN None
    ELSE negotiation_by_id(own_negotiations, deal.negotiation_session_id[1])

uplift_counted(negotiation) ==
    /\ negotiation # None
    /\ negotiation.brand_offer # None
    /\ negotiation.brand_offer[1] > 0
    /\ negotiation.final_agreed_fee_usd # None

\* ((final_agreed_fee_usd - brand_offer) / brand_offer) * 100
uplift_of(negotiation) ==
    RMul(RDiv(RSub(negotiation.final_agreed_fee_usd, negotiation.brand_offer),
              negotiation.brand_offer),
         Float(100))

\* the uplifts list, one entry per linked deal that is counted
uplifts_of(own_deals, own_negotiations) ==
    LET Counted(deal) == uplift_counted(uplift_negotiation(own_negotiations, deal))
    IN  [i \in 1..Len(SelectSeq(own_deals, Counted)) |->
            uplift_of(uplift_negotiation(own_negotiations,
                                         SelectSeq(own_deals, Counted)[i]))]

\* outcome_counts: the negotiations per outcome
outcome_counts_of(own_negotiations) ==
    LET OutcomeOf(n) == StripLower[IF IsBlank(n.outcome) THEN "in_progress"
                                   ELSE n.outcome]
    IN  [outcome \in {OutcomeOf(own_negotiations[k]) : k \in 1..Len(own_negotiations)}
            |-> Cardinality({k \in 1..Len(own_negotiations) :
                                OutcomeOf(own_negotiations[k]) = outcome})]

analytics_deals_summary(own_deals, deal_fees_sorted, quoted_rows) ==
    [deals_count   |-> Len(own_deals),
     total_revenue |-> IF deal_fees_sorted # <<>> THEN SumSeq(deal_fees_sorted)
                       ELSE None,
     avg_deal      |-> safe_avg(deal_fees_sorted),
     median_deal   |-> safe_median(deal_fees_sorted),
     avg_quoted_fee |->
         safe_avg([i \in 1..Len(quoted_rows) |-> quoted_rows[i].quoted_fee_usd]),
     avg_closed_fee |->
         safe_avg([i \in 1..Len(quoted_rows) |-> quoted_rows[i].total_fee_usd]),
     avg_close_vs_quote_pct |-> safe_avg(close_vs_quote_of(quoted_rows)),
     quoted_count  |-> Len(quoted_rows)]

analytics_negotiation_summary(own_negotiations, uplifts) ==
    [negotiation_count |-> Len(own_negotiations),
     avg_uplift_pct    |-> safe_avg(uplifts),
     median_uplift_pct |-> safe_median(uplifts),
     outcomes          |-> outcome_counts_of(own_negotiations)]

user_analytics(own_deals, own_negotiations, quoted_rows, uplifts) ==
    [deals_summary |->
         analytics_deals_summary(own_deals, sorted(fees_of(own_deals)), quoted_rows),
     negotiation_summary |->
         analytics_negotiation_summary(own_negotiations, uplifts),
     flags |-> [has_deals |-> Len(own_deals) > 0,
                has_quoted_vs_closed |-> Len(quoted_rows) > 0,
                has_negotiation_uplift |-> Len(uplifts) > 0]]

user_analytics_of(own_deals, own_negotiations) ==
    user_analytics(own_deals, own_negotiations, quoted_rows_of(own_deals),
                   uplifts_of(own_deals, own_negotiations))

build_user_analytics(deal_table, neg_table, user_id) ==
    user_analytics_of(rows_of_user(deal_table, user_id),
                      rows_of_user(neg_table, user_id))

-----------------------------------------------------------------------------
(* Two users logging negotiations and deals, and their analytics           *)

\* requests handled in one behaviour of the analytics specification
MaxAnalyticsRequests == 4

AnalyticsUsers == {[id |-> 1, plan |-> "premium"], [id |-> 2, plan |-> "premium"]}

\* deals of fee 160 and 200 with and without a link to negotiation 1, and
\* deals with a quote above, below and of 0
AnalyticsDealForms ==
    {[CohortDealForm(fee) EXCEPT !.negotiation_session_id = id] :
        fee \in {"160", "200"}, id \in {NoneStr, "1"}}
    \cup {[CohortDealForm("160") EXCEPT !.quoted_fee_usd = quoted] :
             quoted \in {"100", "200", "0"}}

InitAnalytics ==
    /\ now = Epoch
    /\ user = [id |-> 1, plan |-> "premium"]
    /\ profile = None
    /\ deals = <<>>
    /\ negotiations = <<>>
    /\ calculations = <<>>
    /\ response = NoResponse
    /\ handled = 0
    /\ users = <<>>
    /\ inflight = {}
    /\ IdleStats
    /\ IdleRate

\* the next request comes from the session of the other user
SwitchUser ==
    /\ handled < MaxAnalyticsRequests
    /\ handled' = handled + 1
    /\ user' \in AnalyticsUsers \ {user}
    /\ UNCHANGED <<users, inflight, sample, statsCall, rateArgs, rateResult, now, profile, deals,
                   negotiations, calculations, response>>

NegotiateOffer ==
    /\ handled < MaxAnalyticsRequests
    /\ handled' = handled + 1
    /\ \E offer \in {"100", "0"} :
           NegotiationSubmit(NegotiationForm("50000", "4", offer))

CloseDeal ==
    /\ handled < MaxAnalyticsRequests
    /\ handled' = handled + 1
    /\ \E form \in AnalyticsDealForms : DealNewSubmit(form)

\* build_user_analytics(session, user.id)
BuildUserAnalytics ==
    /\ handled < MaxAnalyticsRequests
    /\ handled' = handled + 1
    /\ statsCall' = [op     |-> "build_user_analytics",
                     arg    |-> [deals |-> deals, negotiations |-> negotiations,
                                 user_id |-> user.id],
                     result |-> build_user_analytics(deals, negotiations, user.id)]
    /\ UNCHANGED <<users, inflight, sample, rateArgs, rateResult, now, user, profile, deals,
                   negotiations, calculations, response>>

NextAnalytics == SwitchUser \/ NegotiateOffer \/ CloseDeal \/ BuildUserAnalytics

SpecAnalytics == InitAnalytics /\ [][NextAnalytics]_vars

-----------------------------------------------------------------------------
(* Claims about the analytics and about linking (checked under             *)
(* SpecAnalytics).                                                         *)

AnalyticsBuilt == statsCall.op = "build_user_analytics"

\* the user's deals with a quoted fee > 0 and a closed fee
QuotedAndClosed(deal_table, user_id) ==
    LET Both(d) ==
            /\ d.user_id = user_id
            /\ d.quoted_fee_usd # None /\ RLt(Float(0), d.quoted_fee_usd)
            /\ d.total_fee_usd # None
    IN  SelectSeq(deal_table, Both)

\* the negotiation of the user a deal is linked to, with a brand offer > 0
LinkedNegotiation(neg_table, user_id, deal) ==
    {k \in 1..Len(neg_table) :
        /\ neg_table[k].user_id = user_id
        /\ deal.negotiation_session_id = Float(neg_table[k].id)
        /\ neg_table[k].brand_offer # None
        /\ RLt(Float(0), neg_table[k].brand_offer)}

\* the user's deals linked to such a negotiation
LinkedDeals(deal_table, neg_table, user_id) ==
    LET Linked(d) ==
            /\ d.user_id = user_id
            /\ LinkedNegotiation(neg_table, user_id, d) # {}
    IN  SelectSeq(deal_table, Linked)

\* (the deal's closed amount - the brand offer) / the brand offer * 100
ClaimedUplift(neg_table, user_id, deal) ==
    LET offer == neg_table[CHOOSE k \in LinkedNegotiation(neg_table, user_id, deal) :
                               TRUE].brand_offer
    IN  RMul(RDiv(RSub(deal.total_fee_usd, offer), offer), Float(100))

ClaimedUplifts(neg_table, user_id, linked) ==
    [i \in 1..Len(linked) |-> ClaimedUplift(neg_table, user_id, linked[i])]

DeltasAsClaimed(result, quoted) ==
    /\ result.deals_summary.quoted_count = Len(quoted)
    /\ result.flags.has_quoted_vs_closed = (quoted # <<>>)
    /\ result.deals_summary.avg_close_vs_quote_pct
           = safe_avg([i \in 1..Len(quoted) |->
                 RMul(RDiv(RSub(quoted[i].total_fee_usd, quoted[i].quoted_fee_usd),
                           quoted[i].quoted_fee_usd), Float(100))])

UpliftsAsClaimed(result, uplifts) ==
    /\ result.flags.has_negotiation_uplift = (uplifts # <<>>)
    /\ result.negotiation_summary.avg_uplift_pct = safe_avg(uplifts)
    /\ result.negotiation_summary.median_uplift_pct = safe_median(uplifts)

\* C23: in build_user_analytics the quote-vs-close deltas cover exactly the
\* user's deals that have both a quoted fee > 0 and a closed fee, and the
\* negotiation uplifts contain one value per deal linked to a negotiation of
\* that user with brand offer > 0, each computed as (that deal's closed
\* amount - the negotiation's brand offer) / brand offer * 100.
C23_DeltasAndUplifts ==
    AnalyticsBuilt =>
        /\ DeltasAsClaimed(statsCall.result,
                           QuotedAndClosed(statsCall.arg.deals, statsCall.arg.user_id))
        /\ UpliftsAsClaimed(
               statsCall.result,
               ClaimedUplifts(statsCall.arg.negotiations, statsCall.arg.user_id,
                              LinkedDeals(statsCall.arg.deals,
                                          statsCall.arg.negotiations,
                                          statsCall.arg.user_id)))

\* deals of 160 and 200 closed against one negotiation with an offer of 100:
\* the average uplift is reported as 100, not the 80 of the uplifts 60 and 100
C23_Witness ==
    /\ AnalyticsBuilt
    /\ Len(statsCall.arg.deals) = 2
    /\ Len(statsCall.arg.negotiations) = 1
    /\ statsCall.arg.deals[1].total_fee_usd = Float(160)
    /\ statsCall.arg.deals[2].total_fee_usd = Float(200)
    /\ statsCall.arg.deals[1].negotiation_session_id = Float(1)
    /\ statsCall.arg.deals[2].negotiation_session_id = Float(1)
    /\ statsCall.arg.negotiations[1].brand_offer = Float(100)
    /\ statsCall.result.negotiation_summary.avg_uplift_pct = Float(100)

-----------------------------------------------------------------------------
(* Claim about the market band of a negotiation (checked under SpecNeg).   *)

NegotiationAssessed ==
    /\ response # NoResponse
    /\ response.handler = "negotiation"
    /\ response.status = 200

\* a metric of the request: the form's value, else the profile's, else absent
GivenMetric(value, field) ==
    IF value # None THEN value
    ELSE IF profile # None THEN profile[field] ELSE None

\* what calculate_rate returns for the inputs of the request
RateOfRequest(form_data) ==
    calculate_rate(form_data.platform, form_data.niche,
                   GivenMetric(to_int(form_data.followers), "followers"),
                   GivenMetric(to_int(form_data.avg_views), "avg_views"),
                   GivenMetric(to_float(form_data.engagement_rate), "engagement_rate"),
                   form_data.geo_region)

BandOfRate(result) == <<result.recommended_min, result.recommended_max>>

\* C24: for the same platform, niche, followers, average views, engagement
\* rate (including an absent engagement rate) and geography, the market band
\* stored by a negotiation assessment equals the (recommendedMin,
\* recommendedMax) calculate_rate returns for those inputs.
C24_MarketBandIsRateBand ==
    NegotiationAssessed =>
        response.market_range = BandOfRate(RateOfRequest(response.form_data))

\* 50000 followers and no engagement rate, in the form or in a profile: the
\* market band starts at 106.26 where calculate_rate gives 92.4
C24_Witness ==
    /\ NegotiationAssessed
    /\ profile = None
    /\ response.form_data.followers = "50000"
    /\ response.form_data.engagement_rate = ""
    /\ response.market_range[1] = Rat(10626, 100)
    /\ RateOfRequest(response.form_data).recommended_min = Rat(924, 10)
    /\ RateOfRequest(response.form_data).engagement_multiplier = Float(1)

-----------------------------------------------------------------------------
(* Claim about the owner of a linked negotiation (checked under            *)
(* SpecAnalytics).                                                         *)

\* the negotiations stored before the step that belong to another user than
\* the one whose request the step handles
NegotiationsOfOthers ==
    {i \in 1..Len(negotiations) : negotiations[i].user_id # user.id}

\* C25: submitting a deal that references a negotiation id never changes the
\* final agreed fee or the outcome of a negotiation owned by a different user
\* than the one submitting the deal.
C25_ForeignNegotiationUntouched ==
    [][\A i \in NegotiationsOfOthers :
           /\ negotiations'[i].final_agreed_fee_usd =
                  negotiations[i].final_agreed_fee_usd
           /\ negotiations'[i].outcome = negotiations[i].outcome]_vars

\* negotiation 1 of user 1 carries the fee of the deal user 2 submitted with
\* negotiation_session_id = 1, and is marked accepted
C25_Witness ==
    /\ Len(negotiations) = 1
    /\ negotiations[1].user_id = 1
    /\ negotiations[1].outcome = "accepted"
    /\ negotiations[1].final_agreed_fee_usd = Float(160)
    /\ Len(deals) = 1
    /\ deals[1].user_id = 2
    /\ deals[1].negotiation_session_id = Float(1)
    /\ deals[1].total_fee_usd = Float(160)
    /\ user.id = 2

-----------------------------------------------------------------------------
(* Concurrent calculator requests of one free user.  calculator_submit is  *)
(* a plain def, which the framework runs in a thread pool, each request    *)
(* with a database session of its own: the SELECT that counts the month's  *)
(* rows and the INSERT of the new row are two statements, and statements   *)
(* of other requests may run between them.                                 *)

\* requests started in one behaviour
MaxLimitRequests == 5

LimitForms == {CalcForm("50000", "", "us"), CalcForm("", "5000", "us")}

InitLimit ==
    /\ now = Epoch
    /\ user = FreeUser
    /\ profile = None
    /\ deals = <<>>
    /\ negotiations = <<>>
    /\ calculations \in {<<>>, SeededCalculations}
    /\ response = NoResponse
    /\ handled = 0
    /\ users = <<>>
    /\ inflight = {}
    /\ IdleStats
    /\ IdleRate

\* calculator_submit up to the monthly limit: the month's rows are counted,
\* and the request is refused or goes on
CalculatorCount ==
    /\ handled < MaxLimitRequests
    /\ handled' = handled + 1
    /\ \E form \in LimitForms :
           IF month_limit_reached(calculations, user)
           THEN /\ response' = limit_page(form)
                /\ UNCHANGED inflight
           ELSE /\ inflight' = inflight \cup {[request |-> handled + 1,
                                               form |-> form]}
                /\ UNCHANGED response
    /\ UNCHANGED <<users, sample, statsCall, rateArgs, rateResult, now, user,
                   profile, deals, negotiations, calculations>>

\* calculator_submit after the monthly limit: the rate is calculated, the row
\* stored and the result rendered
CalculatorStore ==
    /\ \E r \in inflight :
           /\ calculator_store(r.form, calculator_inputs(r.form),
                               calculator_result(deals, calculator_inputs(r.form)))
           /\ inflight' = inflight \ {r}
    /\ UNCHANGED <<users, sample, statsCall, rateArgs, rateResult, now, user,
                   profile, deals, negotiations, handled>>

NextLimit == CalculatorCount \/ CalculatorStore

SpecLimit == InitLimit /\ [][NextLimit]_vars

-----------------------------------------------------------------------------
(* Claim about the monthly limit under concurrency (checked under          *)
(* SpecLimit).                                                             *)

\* the rows of the month stored for the user
RowsOfMonth == month_count(calculations, user)

\* a step in which a request is refused because the limit is reached
Refused ==
    /\ response' # response
    /\ response'.handler = "calculator"
    /\ response'.limit_reached

\* C26: a user whose plan stays free never has more than 3 calculations
\* created within one calendar month, for every sequence and interleaving of
\* the user's concurrent calculator requests; a request refused because the
\* limit is reached creates no calculation.
C26_MonthlyLimit ==
    /\ [](RowsOfMonth <= FREE_MONTHLY_CALCULATIONS)
    /\ [][Refused => calculations' = calculations]_vars

\* two requests counted 2 rows each before either stored its own: 4 rows of
\* the month, and no request in progress
C26_Witness ==
    /\ RowsOfMonth = 4
    /\ inflight = {}
    /\ handled = 2

-----------------------------------------------------------------------------
(* Claim about the counter band and the offer (checked under SpecNeg).     *)

HasCounterBand(negotiation) ==
    /\ negotiation.recommended_counter_min # None
    /\ negotiation.recommended_counter_max # None

\* C27: whenever a negotiation assessment produces a counter band,
\* counter_min <= counter_max and the counter band's upper bound is at least
\* the brand's offer, so the generated message (which says market rates
\* suggest a higher range) never proposes a range lying entirely below what
\* the brand already offered.
C27_CounterBandReachesOffer ==
    \A i \in 1..Len(negotiations) :
        HasCounterBand(negotiations[i]) =>
            /\ RLe(negotiations[i].recommended_counter_min,
                   negotiations[i].recommended_counter_max)
            /\ RLe(negotiations[i].brand_offer,
                   negotiations[i].recommended_counter_max)

\* an offer of 200 against the market band (106.26, 159.39) is stored with
\* the counter band (119.5425, 167.3595)
C27_Witness ==
    \E i \in 1..Len(negotiations) :
        /\ negotiations[i].brand_offer = Float(200)
        /\ negotiations[i].market_max = Rat(15939, 100)
        /\ HasCounterBand(negotiations[i])
        /\ negotiations[i].recommended_counter_min = Rat(1195425, 10000)
        /\ negotiations[i].recommended_counter_max = Rat(1673595, 10000)
        /\ negotiations[i].assessment_text =
               assessment_text_of(Float(11))

-----------------------------------------------------------------------------------------------------------------------------------------------------
(* The summary in the arithmetic of the interpreter's floats: IEEE 754      *)
(* binary64, every operation rounded to nearest, ties to even.  A positive  *)
(* double is [m, e]: its 53-bit mantissa as a natural number and the       *)
(* exponent of the mantissa's last bit, so that its value is m * 2^e.  A   *)
(* natural number is the sequence of its digits in base 2^15, the most     *)
(* significant first.  Fees are positive and far from the ends of the      *)
(* exponent range, so zero, signs, subnormals, infinities and NaN are left *)
(* out.                                                                    *)

MantissaBits == 53

\* the bits of one digit of a natural number
LimbBits == 15

Base == 2^LimbBits

Zeros(k) == [i \in 1..k |-> 0]

\* a natural number without its leading zero digits
NatNorm(a) ==
    IF \A i \in 1..Len(a) : a[i] = 0 THEN <<>>
    ELSE SubSeq(a, CHOOSE i \in 1..Len(a) :
                       a[i] # 0 /\ \A j \in 1..(i - 1) : a[j] = 0,
                Len(a))

\* the carry into digit i of a + b, for a and b of equally many digits: some
\* digit after i overflows and every digit between passes the carry on
CarryInto(a, b, i) ==
    \E j \in (i + 1)..Len(a) :
        /\ a[j] + b[j] >= Base
        /\ \A k \in (i + 1)..(j - 1) : a[k] + b[k] = Base - 1

CarryOf(a, b, i) == IF CarryInto(a, b, i) THEN 1 ELSE 0

\* a + b for a and b of equally many digits, one digit longer
AddAligned(a, b) ==
    [i \in 1..(Len(a) + 1) |->
        IF i = 1 THEN CarryOf(a, b, 0)
        ELSE (a[i - 1] + b[i - 1] + CarryOf(a, b, i - 1)) % Base]

NatAddAligned(a, b) == NatNorm(AddAligned(a, b))

NatAdd(a, b) ==
    IF Len(a) > Len(b) THEN NatAddAligned(a, Zeros(Len(a) - Len(b)) \o b)
    ELSE NatAddAligned(Zeros(Len(b) - Len(a)) \o a, b)

\* a * 2^s for s < LimbBits, one digit longer: the upper bits of every digit
\* move into the digit before it
ShiftBitsLeft(a, s) ==
    [i \in 1..(Len(a) + 1) |->
        (IF i <= Len(a) THEN (a[i] * 2^s) \div Base ELSE 0)
            + (IF i >= 2 THEN (a[i - 1] * 2^s) % Base ELSE 0)]

\* a * 2^k
NatShiftLeft(a, k) ==
    NatNorm(ShiftBitsLeft(a, k % LimbBits)) \o Zeros(k \div LimbBits)

\* a \div 2^s for s < LimbBits: the lower bits of every digit move into the
\* digit after it
ShiftBitsRight(a, s) ==
    [i \in 1..Len(a) |->
        a[i] \div 2^s
            + (IF i >= 2 THEN (a[i - 1] % 2^s) * 2^(LimbBits - s) ELSE 0)]

\* the digits of a before its last n digits
DigitsBefore(a, n) == SubSeq(a, 1, Len(a) - n)

\* whether one of the last n digits of a is not zero
DigitsLost(a, n) == \E i \in (Len(a) - n + 1)..Len(a) : a[i] # 0

\* <<kept \div 2^s, whether kept is no multiple of 2^s or lost holds>>
ShiftedRight(kept, s, lost) ==
    <<NatNorm(ShiftBitsRight(kept, s)),
      lost \/ (kept # <<>> /\ kept[Len(kept)] % 2^s # 0)>>

\* <<a \div 2^k, whether a is no multiple of 2^k>>
NatShiftRight(a, k) ==
    IF k \div LimbBits >= Len(a) THEN <<<<>>, DigitsLost(a, Len(a))>>
    ELSE ShiftedRight(DigitsBefore(a, k \div LimbBits), k % LimbBits,
                      DigitsLost(a, k \div LimbBits))

\* <<quotient digits, remainder>> of the first i digits of a divided by d,
\* for 0 < d <= Base
RECURSIVE DivToDigit(_, _, _)
DivToDigit(a, d, i) ==
    IF i = 0 THEN <<<<>>, 0>>
    ELSE LET before == DivToDigit(a, d, i - 1)
         IN  <<Append(before[1], (before[2] * Base + a[i]) \div d),
               (before[2] * Base + a[i]) % d>>

\* <<quotient digits, remainder>> of a divided by the integer d
NatDivSmall(a, d) == DivToDigit(a, d, Len(a))

\* the number of bits of a natural number > 0 without leading zero digits
BitLen(a) ==
    LimbBits * (Len(a) - 1)
        + CHOOSE k \in 1..LimbBits : 2^(k - 1) <= a[1] /\ a[1] < 2^k

IsOdd(a) == a # <<>> /\ a[Len(a)] % 2 = 1

\* the double of a mantissa of 53 or, after a carry out of rounding, 54 bits
Normalized(m, e) ==
    [m |-> NatShiftRight(m, BitLen(m) - MantissaBits)[1],
     e |-> e + (BitLen(m) - MantissaBits)]

\* round to nearest, ties to even: kept are the 53 leading bits, guard the
\* bit after them, below whether anything non-zero follows the guard bit
RoundedUp(kept, guard, below, e) ==
    IF guard /\ (below \/ IsOdd(kept))
    THEN Normalized(NatAdd(kept, <<1>>), e)
    ELSE [m |-> kept, e |-> e]

\* leading are the 54 leading bits, in leading[1], with leading[2] telling
\* whether anything non-zero was cut off after them
RoundLeading(leading, sticky, e) ==
    RoundedUp(NatShiftRight(leading[1], 1)[1], IsOdd(leading[1]),
              sticky \/ leading[2], e)

\* the exact value n * 2^e (n > 0 without leading zero digits, sticky
\* telling that a non-zero part below the last bit was cut off) rounded to a
\* double
RoundBinary64(n, e, sticky) ==
    IF BitLen(n) <= MantissaBits
    THEN [m |-> NatShiftLeft(n, MantissaBits - BitLen(n)),
          e |-> e - (MantissaBits - BitLen(n))]
    ELSE RoundLeading(NatShiftRight(n, BitLen(n) - MantissaBits - 1), sticky,
                      e + (BitLen(n) - MantissaBits))

\* x + y, e being the smaller of the two exponents
FAddAt(x, y, e) ==
    RoundBinary64(NatAdd(NatShiftLeft(x.m, x.e - e), NatShiftLeft(y.m, y.e - e)),
                  e, FALSE)

\* x + y
FAdd(x, y) == IF x.e < y.e THEN FAddAt(x, y, x.e) ELSE FAddAt(x, y, y.e)

\* bits the dividend is extended by: enough for the rounding bit of the
\* quotient when n < 128
DivGuardBits == 8

RoundQuotient(division, e) ==
    RoundBinary64(NatNorm(division[1]), e, division[2] # 0)

\* x / n for an integer n in 1..127 (n is converted to a double exactly)
FDivInt(x, n) ==
    RoundQuotient(NatDivSmall(NatShiftLeft(x.m, DivGuardBits), n),
                  x.e - DivGuardBits)

\* a < b for natural numbers of equally many digits
NatLt(a, b) ==
    \E i \in 1..Len(a) :
        /\ a[i] < b[i]
        /\ \A j \in 1..(i - 1) : a[j] = b[j]

\* x < y and x <= y
FLt(x, y) == x.e < y.e \/ (x.e = y.e /\ NatLt(x.m, y.m))

FLe(x, y) == x = y \/ FLt(x, y)

\* sum(values): 0 + values[0] + values[1] + ..., from left to right; FSumTo is
\* the total after the first n values
RECURSIVE FSumTo(_, _)
FSumTo(values, n) ==
    IF n = 1 THEN values[1]
    ELSE FAdd(FSumTo(values, n - 1), values[n])

FSum(values) == FSumTo(values, Len(values))

\* sorted(values) of doubles
RECURSIVE FInsert(_, _)
FInsert(x, s) ==
    IF s = <<>> THEN <<x>>
    ELSE IF FLt(x, Head(s)) THEN <<x>> \o s
    ELSE <<Head(s)>> \o FInsert(x, Tail(s))

RECURSIVE sorted_binary64(_)
sorted_binary64(values) ==
    IF values = <<>> THEN <<>>
    ELSE FInsert(values[Len(values)],
                 sorted_binary64(SubSeq(values, 1, Len(values) - 1)))

\* _safe_avg: float(sum(values) / len(values))
safe_avg_binary64(values) ==
    IF values = <<>> THEN None ELSE FDivInt(FSum(values), Len(values))

\* _safe_median: statistics.median of sorted data
safe_median_binary64(data) ==
    IF data = <<>> THEN None
    ELSE IF Len(data) % 2 = 1 THEN data[Len(data) \div 2 + 1]
    ELSE FDivInt(FAdd(data[Len(data) \div 2], data[Len(data) \div 2 + 1]), 2)

\* _clip_outliers of a sorted list
clip_outliers_binary64(values_sorted) ==
    IF Len(values_sorted) < 5 THEN values_sorted
    ELSE IF upper_idx(Len(values_sorted)) <= lower_idx(Len(values_sorted))
    THEN values_sorted
    ELSE IF Slice(values_sorted, lower_idx(Len(values_sorted)),
                  upper_idx(Len(values_sorted))) # <<>>
    THEN Slice(values_sorted, lower_idx(Len(values_sorted)),
               upper_idx(Len(values_sorted)))
    ELSE values_sorted

summary_binary64(values_sorted, clipped) ==
    [count  |-> Len(values_sorted),
     avg    |-> safe_avg_binary64(clipped),
     median |-> safe_median_binary64(clipped),
     min    |-> values_sorted[1],
     max    |-> values_sorted[Len(values_sorted)]]

summarize_sorted_binary64(values_sorted) ==
    summary_binary64(values_sorted, clip_outliers_binary64(values_sorted))

\* summarize_fees_outlier_safe over doubles
summarize_fees_binary64(values) ==
    IF values = <<>> THEN EmptySummary
    ELSE summarize_sorted_binary64(sorted_binary64(values))

\* float("100.1") = 0x1.9066666666666p+6 = 7043911292184166 * 2^-46
Fee100_1 == [m |-> <<200, 6553, 19660, 26214>>, e |-> -46]

\* float("0.1") = 0x1.999999999999ap-4 = 7205759403792794 * 2^-56
Fee0_1 == [m |-> <<204, 26214, 13107, 6554>>, e |-> -56]

\* float("160") = 0x1.4000000000000p+7 = 5629499534213120 * 2^-45
Fee160 == [m |-> <<160, 0, 0, 0>>, e |-> -45]

\* longest list of doubles summarised
MaxFloatLen == 5

FloatFees == {Fee100_1, Fee0_1, Fee160}

InitFloat ==
    /\ sample \in UNION {[1..n -> FloatFees] : n \in 0..MaxFloatLen}
    /\ statsCall = NoCall
    /\ IdleRate
    /\ IdleSystem

\* summarize_fees_outlier_safe(sample), sample a list of doubles
SummarizeFloatFees ==
    /\ statsCall.op = "none"
    /\ statsCall' = [op |-> "summarize_fees_binary64", arg |-> sample,
                     result |-> summarize_fees_binary64(sample)]
    /\ UNCHANGED <<users, inflight, sample, rateArgs, rateResult, now, user,
                   profile, deals, negotiations, calculations, response, handled>>

NextFloat == SummarizeFloatFees

SpecFloat == InitFloat /\ [][NextFloat]_vars

-----------------------------------------------------------------------------
(* Claim about the order of the summary's values (checked under SpecFloat). *)

FloatsSummarized ==
    /\ statsCall.op = "summarize_fees_binary64"
    /\ sample # <<>>

\* the slice of a sorted sample of n values that _clip_outliers takes
TrimmedSlice(n) == Slice([i \in 1..n |-> i], lower_idx(n), upper_idx(n))

\* C28: for every non-empty sample, the outlier-safe summary satisfies
\* min <= median <= max and min <= avg <= max, and for every sample of size
\* n >= 5 the trimmed slice is non-empty, so the fall-back to the full sorted
\* sample is never taken.
C28_SummaryWithinExtremes ==
    FloatsSummarized =>
        /\ FLe(statsCall.result.min, statsCall.result.median)
        /\ FLe(statsCall.result.median, statsCall.result.max)
        /\ FLe(statsCall.result.min, statsCall.result.avg)
        /\ FLe(statsCall.result.avg, statsCall.result.max)
        /\ Len(sample) >= 5 =>
               /\ upper_idx(Len(sample)) > lower_idx(Len(sample))
               /\ TrimmedSlice(Len(sample)) # <<>>

\* three fees of 100.1: the sum 300.29999999999995 divided by 3 is
\* 100.09999999999998, the double below the smallest fee
C28_Witness ==
    /\ FloatsSummarized
    /\ sample = <<Fee100_1, Fee100_1, Fee100_1>>
    /\ statsCall.result.min = Fee100_1
    /\ statsCall.result.max = Fee100_1
    /\ statsCall.result.median = Fee100_1
    /\ FLt(statsCall.result.avg, Fee100_1)
    /\ FAdd(statsCall.result.avg,
            [m |-> <<1>>, e |-> Fee100_1.e]) = Fee100_1

-----------------------------------------------------------------------------
(* Claim about the quarter windows as a partition of the year (checked     *)
(* under SpecReport).                                                      *)

\* the (year, quarter) pairs in whose window the statement of
\* build_quarterly_niche_stats selects the row
WindowsCounting(row) ==
    {yq \in (2023..2025) \X (1..4) :
        window_rows(<<row>>, row.niche, "all",
                    quarter_date_range(yq[1], yq[2])) # <<>>}

\* C29: every shared deal record is counted in the window of exactly one
\* (year, quarter): the four quarter windows of a year are pairwise disjoint
\* and every possible record creation timestamp within the year lies inside
\* one of them, so no deal is missing from all quarterly reports or counted
\* in two.
C29_ExactlyOneWindow ==
    \A i \in 1..Len(deals) :
        deals[i].share_in_index = TRUE =>
            Cardinality(WindowsCounting(deals[i])) = 1

\* a shared record created half a second after 23:59:59 of 2023-12-31 is in
\* no window: the report of Q1 2024 counts one record for Q4 2023, the one of
\* 23:59:59.000000
C29_Witness ==
    /\ StatsReturned
    /\ statsCall.arg.key.year = 2024 /\ statsCall.arg.key.quarter = 1
    /\ \E i \in 1..Len(deals) :
           /\ deals[i].created_at = AfterLastOf2023
           /\ deals[i].share_in_index = TRUE
           /\ deals[i].niche = statsCall.arg.key.niche_code
           /\ WindowsCounting(deals[i]) = {}
    /\ statsCall.arg.session = deals
    /\ statsCall.result.prev_quarter # None
    /\ statsCall.result.prev_quarter.deal_count = 1

-----------------------------------------------------------------------------
(* src/auth.py and the signup and login handlers of src/main.py            *)

\* email.strip().lower() of every email the model submits
EmailStripLower ==
    "ada@example.com" :> "ada@example.com" @@
    "Ada@Example.com" :> "ada@example.com" @@
    " ada@example.com " :> "ada@example.com" @@
    "bob@example.com" :> "bob@example.com"

normalize_email(email) == EmailStripLower[email]

\* pwd_context.hash: a bcrypt hash is made of a fresh salt and the digest of
\* the salted password; the digest stands for the password it was made of
hash_password(password, salt) ==
    [scheme |-> "bcrypt", salt |-> salt, digest_of |-> password]

\* pwd_context.verify: the password hashed with the hash's salt gives the
\* hash's digest
verify_password(plain_password, hashed_password) ==
    hash_password(plain_password, hashed_password.salt) = hashed_password

\* session.exec(select(User).where(User.email == email)).first()
first_user_with_email(user_table, email) ==
    IF \E i \in 1..Len(user_table) : user_table[i].email = email
    THEN user_table[CHOOSE i \in 1..Len(user_table) :
                        /\ user_table[i].email = email
                        /\ \A j \in 1..(i - 1) : user_table[j].email # email]
    ELSE None

\* the row found is returned when the password verifies
verified_user(found, password) ==
    IF found = None THEN None
    ELSE IF ~verify_password(password, found.hashed_password) THEN None
    ELSE found

authenticate_user(user_table, email, password) ==
    verified_user(first_user_with_email(user_table, normalize_email(email)),
                  password)

\* the User row signup stores
new_user(id, email, username, hashed_password) ==
    [id |-> id, email |-> email, username |-> username,
     hashed_password |-> hashed_password, plan |-> "free"]

\* select(User).where((User.email == email) | (User.username == username))
user_exists(user_table, email, username) ==
    \E i \in 1..Len(user_table) :
        user_table[i].email = email \/ user_table[i].username = username

\* the user is stored and logged in
signup_store(row) ==
    /\ users' = Append(users, row)
    /\ user' = row
    /\ response' = [handler |-> "signup", status |-> 303,
                    location |-> "/dashboard"]

\* POST /signup
Signup(email, username, password, confirm_password, salt) ==
    /\ IF password # confirm_password
       THEN /\ response' = [handler |-> "signup", status |-> 400,
                            error |-> "Passwords do not match."]
            /\ UNCHANGED <<users, user>>
       ELSE IF user_exists(users, email, username)
       THEN /\ response' = [handler |-> "signup", status |-> 400,
                            error |-> "Email or username already exists."]
            /\ UNCHANGED <<users, user>>
       ELSE signup_store(new_user(Len(users) + 1, email, username,
                                  hash_password(password, salt)))
    /\ UNCHANGED <<inflight, sample, statsCall, rateArgs, rateResult, now,
                   profile, deals, negotiations, calculations>>

\* the response of login for what authenticate_user returned
login_as(found) ==
    IF found = None
    THEN /\ response' = [handler |-> "login", status |-> 400,
                         error |-> "Invalid email or password."]
         /\ UNCHANGED user
    ELSE /\ response' = [handler |-> "login", status |-> 303,
                         location |-> "/dashboard"]
         /\ user' = found

\* POST /login
Login(email, password) ==
    /\ login_as(authenticate_user(users, email, password))
    /\ UNCHANGED <<users, inflight, sample, statsCall, rateArgs, rateResult,
                   now, profile, deals, negotiations, calculations>>

-----------------------------------------------------------------------------
(* Accounts signing up and logging in                                      *)

\* requests handled in one behaviour
MaxAuthRequests == 3

Emails == {"ada@example.com", "Ada@Example.com", " ada@example.com ",
           "bob@example.com"}

Usernames == {"ada", "bob"}

Passwords == {"pw1", "pw2"}

\* the salts bcrypt may draw
Salts == {"salt1", "salt2"}

InitAuth ==
    /\ now = Epoch
    /\ user = None
    /\ profile = None
    /\ deals = <<>>
    /\ negotiations = <<>>
    /\ calculations = <<>>
    /\ response = NoResponse
    /\ handled = 0
    /\ users = <<>>
    /\ inflight = {}
    /\ IdleStats
    /\ IdleRate

SubmitSignup ==
    /\ handled < MaxAuthRequests
    /\ handled' = handled + 1
    /\ \E email \in Emails, username \in Usernames, password \in Passwords,
          confirm_password \in Passwords, salt \in Salts :
           Signup(email, username, password, confirm_password, salt)

SubmitLogin ==
    /\ handled < MaxAuthRequests
    /\ handled' = handled + 1
    /\ \E email \in Emails, password \in Passwords : Login(email, password)

\* authenticate_user(session, email, password)
AuthenticateUser ==
    /\ handled < MaxAuthRequests
    /\ handled' = handled + 1
    /\ \E email \in Emails, password \in Passwords :
           statsCall' = [op     |-> "authenticate_user",
                         arg    |-> [session |-> users, email |-> email,
                                     password |-> password],
                         result |-> authenticate_user(users, email, password)]
    /\ UNCHANGED <<users, inflight, sample, rateArgs, rateResult, now, user,
                   profile, deals, negotiations, calculations, response>>

NextAuth == SubmitSignup \/ SubmitLogin \/ AuthenticateUser

SpecAuth == InitAuth /\ [][NextAuth]_vars

-----------------------------------------------------------------------------
(* Claim about signup followed by login (checked under SpecAuth).          *)

Authenticated == statsCall.op = "authenticate_user"

\* the users of the table that signed up with the email and the password
SignedUpWith(user_table, email, password) ==
    {i \in 1..Len(user_table) :
        /\ user_table[i].email = email
        /\ user_table[i].hashed_password.digest_of = password}

\* C30: after a successful signup with email e and password p,
\* authenticate_user called with the same e and p returns that user, for
\* every email string e accepted at signup.
C30_SignupLoginRoundTrip ==
    Authenticated =>
        \A i \in SignedUpWith(statsCall.arg.session, statsCall.arg.email,
                              statsCall.arg.password) :
            statsCall.result = statsCall.arg.session[i]

\* the only user signed up as Ada@Example.com, and authenticate_user with
\* this email and the user's password returned None
C30_Witness ==
    /\ Authenticated
    /\ Len(statsCall.arg.session) = 1
    /\ statsCall.arg.session[1].email = "Ada@Example.com"
    /\ statsCall.arg.email = "Ada@Example.com"
    /\ SignedUpWith(statsCall.arg.session, statsCall.arg.email,
                    statsCall.arg.password) = {1}
    /\ statsCall.result = None

====
